---- MODULE Spec2Model ----
(***************************************************************************)
(* Amazegame (src/unnamed/part_001): the dungeon generator, its slide      *)
(* reachability analyzer and the scene life cycle around them.             *)
(*                                                                         *)
(* Coordinates are the source's 0-based tile coordinates; map[y][x] reads   *)
(* as in the source.  A point {x, y} is the tuple <<x, y>>, null is <<>>.   *)
(***************************************************************************)
EXTENDS Integers, Sequences, FiniteSets, TLC

VARIABLES
    scene,          \* active Phaser scene: "BootScene" or "GameScene"
    pc,             \* position inside GameScene.create / the analyzer harness
    level,          \* GameScene.level
    lives,          \* GameScene.lives
    map,            \* GameScene.map (the tile grid), <<>> when null
    startPoint,     \* GameScene.startPoint
    exitPoint,      \* GameScene.exitPoint
    coinPosition,   \* GameScene.coinPosition
    rooms,          \* the global rooms list
    attempt,        \* loop variable of generateDungeonWithRetries
    analysis,       \* result of the last findReachablePositions call made by placeStartAndExit
    outcome,        \* how the last generateDungeon call ended
    seedLog,        \* the generateDungeon calls of the running generateDungeonWithRetries: seed and outcome
    emitLog,        \* per level, the first dungeon emitted for it in this session
    regen,          \* whether a level has been generated a second time in this session
    source,         \* which seeded random source the session runs on
    stages,         \* what the statements of the last generateDungeon call left: leafs and grids
    centipede,      \* what the last createCentipede call scanned: the grid and its possiblePositions
    call,           \* the operation a harness has applied: its arguments and its result
    player,         \* GameScene.player: <<tileX, tileY>>, <<>> before the first addPlayer
    coinsCollected, \* how many times checkPlayerPosition has found a coin since the last drawMap of a new dungeon
    wordScene,      \* Word Snake (src/game.js): the active scene, "BootScene" or "GameScene"
    currentWord,    \* GameScene.currentWord, <<>> when null
    spelledLetters, \* GameScene.spelledLetters, a string as the sequence of its characters
    wordLevel,      \* GameScene.level of Word Snake
    segments,       \* snake.segments.length, 0 while there is no snake
    lettersOnField, \* GameScene.lettersOnField: the letter of each entry, in array order
    currentLength,  \* GameScene.currentLength
    bestThisGame,   \* GameScene.bestThisGame
    leaderboard,    \* localStorage item wordSnakeLeaderboard
    processed,      \* the processLetter calls of the last update, in call order
    wordsSpelled,   \* how many words have been spelled in full in the running game
    finishedGames,  \* the greatest snake length of each game that has ended, largest first
    worker,         \* service worker (src/sw.js): how far the worker's life has come
    appVersion,     \* APP_VERSION, the version of the manifest the worker has read
    cacheStorage,   \* the origin's CacheStorage: the caches in creation order
    server,         \* the version of each asset that the network serves
    online,         \* whether the network can be reached
    keys,           \* the cache names that caches.keys() gave the activate handler
    served,         \* the fetch event handled last and its response
    missed          \* the lifecycle events dispatched while the worker had no listener for them

vars == <<scene, pc, level, lives, map, startPoint, exitPoint, coinPosition, rooms,
          attempt, analysis, outcome, seedLog, emitLog, regen, source, stages, centipede, call,
          player, coinsCollected,
          wordScene, currentWord, spelledLetters, wordLevel, segments, lettersOnField,
          currentLength, bestThisGame, leaderboard, processed, wordsSpelled, finishedGames,
          worker, appVersion, cacheStorage, server, online, keys, served, missed>>

\* the state of Word Snake (src/game.js)
wordVars == <<wordScene, currentWord, spelledLetters, wordLevel, segments, lettersOnField,
              currentLength, bestThisGame, leaderboard, processed, wordsSpelled, finishedGames>>

\* the state of the programs other than Amazegame
\* the state of the service worker (src/sw.js) and of what it talks to
workerVars == <<worker, appVersion, cacheStorage, server, online, keys, served, missed>>

otherVars == <<wordVars, workerVars>>

\* the player of Amazegame and the count of its coins
playerVars == <<player, coinsCollected>>

----------------------------------------------------------------------------
(* Program constants *)

MAP_WIDTH == 35
MAP_HEIGHT == 35

TILE_WALL == 0
TILE_FLOOR == 1
TILE_STONE == 2
TILE_LAVA == 3
TILE_COIN == 4
TILE_EXIT == 100

MIN_LEAF_SIZE == 6
maxAttempts == 100

(* Bounds of the model *)

MaxLevel == 2       \* levels played in one session
MaxSource == 2      \* random sources 0..MaxSource
MaxBlocks == 2      \* non-Floor tiles in an analyzer test window
WinW == 3           \* width of the analyzer test window
MaxCorridor == 10   \* longest corridor handed to the analyzer
MaxSide == 24       \* longest side of a leaf handed to Leaf.split
MaxOrigin == 1      \* largest x and y of a leaf handed to Leaf.split
MaxTreeDraw == 32767   \* generator states 0..MaxTreeDraw (all of them) handed to the tree-building loop
MaxRoomSide == 5    \* longest side of a room handed to createCorridor
MaxCorridorDraw == 1023 \* generator states 0..MaxCorridorDraw handed to createCorridor
MaxLavaCorridor == 12   \* longest corridor handed to addLava
MaxLavaDraw == 63   \* generator states 0..MaxLavaDraw handed to addLava
MaxCoinRoom == 6    \* longest side of the room handed to placeGoldCoin
MaxCoinDraw == 31   \* generator states 0..MaxCoinDraw handed to placeGoldCoin
MaxDraw == 15       \* generator states 0..MaxDraw handed to Leaf.split

NoTile == -1        \* the analyzer's `tile = null`
NullPoint == <<>>

Xs == 0 .. (MAP_WIDTH - 1)
Ys == 0 .. (MAP_HEIGHT - 1)

\* the grid generateDungeon allocates
AllWall == [y \in Ys |-> [x \in Xs |-> TILE_WALL]]

Min2(a, b) == IF a < b THEN a ELSE b
Max2(a, b) == IF a > b THEN a ELSE b

----------------------------------------------------------------------------
(* The reachability analyzer: findReachablePositions *)

posKey(x, y) == <<x, y>>

directions == << <<-1, 0>>, <<1, 0>>, <<0, -1>>, <<0, 1>> >>

\* A tile that ends a slide: the analyzer's inner-loop break condition.
StopsSlideNoStone(tile) == tile = TILE_WALL \/ tile = TILE_LAVA
StopsSlideNotFloor(tile) == tile # TILE_FLOOR
StopsSlide(tile) == tile = TILE_WALL \/ tile = TILE_STONE \/ tile = TILE_LAVA

InGrid(x, y) == x >= 0 /\ x < MAP_WIDTH /\ y >= 0 /\ y < MAP_HEIGHT

\* The inner while(true) loop, from (x, y) in direction (dx, dy): the slide
\* enters tile after tile until the next one is off the grid or stops it.
\* `steps` counts the tiles entered, (x, y) is the last of them, and `tile`
\* is the last tile the loop read: the one that stopped the slide, or, at
\* the edge of the grid, the last one entered (NoTile if none was).
Slide(m, x, y, dx, dy) ==
    LET Enters(k) == /\ InGrid(x + k * dx, y + k * dy)
                     /\ ~StopsSlide(m[y + k * dy][x + k * dx])
        steps == CHOOSE k \in 0 .. (MAP_WIDTH + MAP_HEIGHT) :
                     (\A j \in 1 .. k : Enters(j)) /\ ~Enters(k + 1)
        nextX == x + (steps + 1) * dx
        nextY == y + (steps + 1) * dy
    IN  [x |-> x + steps * dx, y |-> y + steps * dy, steps |-> steps,
         tile |-> IF InGrid(nextX, nextY) THEN m[nextY][nextX]
                  ELSE IF steps > 0 THEN m[y + steps * dy][x + steps * dx]
                  ELSE NoTile]

\* the keys held by the visited Set, kept in insertion order
SeqToSet(s) == {s[i] : i \in 1 .. Len(s)}

\* distance recorded for a newly visited landing tile
HopDistanceBySteps(current, steps) == current.distance + steps
HopDistance(current, steps) == current.distance + 1

\* The for (let dir of directions) loop for one dequeued entry, from
\* direction i on.  A slide stopped by lava leaves the loop (break).
RECURSIVE ExploreDirections(_, _, _, _)
ExploreDirections(m, current, i, b) ==
    IF i > Len(directions) THEN b
    ELSE LET dir == directions[i]
             s == Slide(m, current.x, current.y, dir[1], dir[2])
             key == posKey(s.x, s.y)
             d == HopDistance(current, s.steps)
         IN  IF s.tile = TILE_LAVA THEN b
             ELSE IF s.steps > 0 /\ key \notin SeqToSet(b.visited)
                  THEN ExploreDirections(m, current, i + 1,
                         [queue |-> Append(b.queue, [x |-> s.x, y |-> s.y, distance |-> d]),
                          visited |-> Append(b.visited, key),
                          distances |-> (key :> d) @@ b.distances,
                          pushed |-> Append(b.pushed, key)])
                  ELSE ExploreDirections(m, current, i + 1, b)

\* State of the search before the while loop.  `pushed` lists every
\* queue.push in order (the queue itself forgets what it has shifted out).
BfsStart(startX, startY) ==
    [queue |-> << [x |-> startX, y |-> startY, distance |-> 0] >>,
     visited |-> << posKey(startX, startY) >>,
     distances |-> (posKey(startX, startY) :> 0),
     pushed |-> << posKey(startX, startY) >>]

\* One iteration of while (queue.length > 0)
BfsStep(m, b) == ExploreDirections(m, Head(b.queue), 1, [b EXCEPT !.queue = Tail(@)])

\* while (queue.length > 0), at most n iterations of it: the first half of
\* them, then, if the queue is not yet empty, the rest.
RECURSIVE BfsRun(_, _, _)
BfsRun(m, b, n) ==
    IF b.queue = <<>> THEN b
    ELSE IF n <= 1 THEN BfsStep(m, b)
    ELSE LET half == BfsRun(m, b, n \div 2)
         IN  IF half.queue = <<>> THEN half ELSE BfsRun(m, half, n - n \div 2)

\* Every tile is pushed at most once, so the loop ends within as many
\* iterations as the grid has tiles.
findReachablePositions(m, startX, startY) ==
    BfsRun(m, BfsStart(startX, startY), MAP_WIDTH * MAP_HEIGHT)

isReachable(m, start, target) ==
    posKey(target[1], target[2]) \in SeqToSet(findReachablePositions(m, start[1], start[2]).visited)

----------------------------------------------------------------------------
(* The seeded random source (Phaser.Math.RandomDataGenerator).  A generator *)
(* state is a number; every draw advances it by Step and reads the new      *)
(* state as a fraction of RandomRange.  Source 0 ignores its seed.          *)

RandomRange == 32768

Step(s) == (s * 25173 + 13849) % RandomRange

\* new RandomDataGenerator([seed.toString()])
SeedSource(seed) == (seed * source * 7919 + source * 977 + 62) % RandomRange

\* random.between(min, max): the value drawn in state s (the state becomes Step(s))
between(s, min, max) == min + (Step(s) * (max - min + 1)) \div RandomRange

\* random.pick(array)
pick(s, array) == array[between(s, 0, Len(array) - 1) + 1]

\* random.shuffle(array): for (i = len - 1; i > 0; i--) swap array[i] with
\* array[floor(frac * (i + 1))].  i counts 1-based here.  One iteration:
ShuffleStep(st) ==
    LET j == between(st.s, 0, st.i - 1) + 1
    IN  [array |-> [st.array EXCEPT ![st.i] = st.array[j], ![j] = st.array[st.i]],
         s |-> Step(st.s), i |-> st.i - 1]

\* at most n iterations of the loop: the first half of them, then the rest
RECURSIVE ShuffleRun(_, _)
ShuffleRun(st, n) ==
    IF st.i <= 1 THEN st
    ELSE IF n <= 1 THEN ShuffleStep(st)
    ELSE LET half == ShuffleRun(st, n \div 2)
         IN  IF half.i <= 1 THEN half ELSE ShuffleRun(half, n - n \div 2)

shuffle(s, array) == ShuffleRun([array |-> array, s |-> s, i |-> Len(array)], Len(array))

----------------------------------------------------------------------------
(* The BSP tree: Leaf *)

\* new Leaf(x, y, width, height); children and room are indices, 0 is null
Leaf(x, y, width, height) ==
    [x |-> x, y |-> y, width |-> width, height |-> height,
     leftChild |-> 0, rightChild |-> 0, room |-> 0]

\* let max = (splitH ? this.height : this.width) - MIN_LEAF_SIZE
splitMaxWhole(extent) == extent - 1
splitMax(extent) == extent - MIN_LEAF_SIZE

splitHDrawn(leaf, drawnH) == drawnH

\* Leaf.split: splitH after the two ratio tests, from the drawn value
splitH(leaf, drawnH) ==
    IF leaf.width > leaf.height /\ 4 * leaf.width >= 5 * leaf.height THEN FALSE
    ELSE IF leaf.height > leaf.width /\ 4 * leaf.height >= 5 * leaf.width THEN TRUE
    ELSE drawnH

\* Leaf.split: ok, the two children and the generator state afterwards
split(leaf, s) ==
    IF leaf.leftChild # 0 \/ leaf.rightChild # 0
    THEN [ok |-> FALSE, s |-> s]
    ELSE LET drawnH == between(s, 0, 1) = 0
             s1 == Step(s)
             horizontal == splitH(leaf, drawnH)
             max == splitMax(IF horizontal THEN leaf.height ELSE leaf.width)
             at == between(s1, MIN_LEAF_SIZE, max)
         IN  IF max <= MIN_LEAF_SIZE
             THEN [ok |-> FALSE, s |-> s1]
             ELSE [ok |-> TRUE, s |-> Step(s1),
                   left |-> IF horizontal THEN Leaf(leaf.x, leaf.y, leaf.width, at)
                            ELSE Leaf(leaf.x, leaf.y, at, leaf.height),
                   right |-> IF horizontal THEN Leaf(leaf.x, leaf.y + at, leaf.width, leaf.height - at)
                             ELSE Leaf(leaf.x + at, leaf.y, leaf.width - at, leaf.height)]

\* leaf.width > 20 || leaf.height > 20
tooLargeWidthOnly(leaf) == leaf.width > 20
tooLarge(leaf) == leaf.width > 20 \/ leaf.height > 20

\* One iteration of the for loop of generateDungeon, on leafs[st.i]
SplitPassStep(st) ==
    LET leaf == st.leafs[st.i]
        large == tooLarge(leaf)
        wants == large \/ between(st.s, 0, 100) > 25
        s1 == IF large THEN st.s ELSE Step(st.s)
        r == split(leaf, s1)
        n == Len(st.leafs)
    IN  IF leaf.leftChild # 0 \/ leaf.rightChild # 0 THEN [st EXCEPT !.i = @ + 1]
        ELSE IF ~wants THEN [st EXCEPT !.i = @ + 1, !.s = s1]
        ELSE IF ~r.ok THEN [st EXCEPT !.i = @ + 1, !.s = r.s]
        ELSE [leafs |-> Append(Append([st.leafs EXCEPT ![st.i].leftChild = n + 1,
                                                      ![st.i].rightChild = n + 2],
                                      r.left), r.right),
              i |-> st.i + 1, didSplit |-> TRUE, s |-> r.s]

\* for (let i = 0; i < leafs.length; i++), at most n iterations of it: the
\* first half of them, then the rest
RECURSIVE SplitPass(_, _)
SplitPass(st, n) ==
    IF st.i > Len(st.leafs) THEN st
    ELSE IF n <= 1 THEN SplitPassStep(st)
    ELSE LET half == SplitPass(st, n \div 2)
         IN  IF half.i > Len(half.leafs) THEN half ELSE SplitPass(half, n - n \div 2)

\* while (didSplit).  split gives both children at least MIN_LEAF_SIZE
\* tiles each way, so the leaves of the tree number at most the grid's area
\* over MIN_LEAF_SIZE squared, and a pass visits fewer than twice as many
\* nodes.
loopAgainNever(didSplit) == FALSE

\* the test of while (didSplit)
loopAgain(didSplit) == didSplit

RECURSIVE SplitLoop(_, _)
SplitLoop(leafs, s) ==
    LET pass == SplitPass([leafs |-> leafs, i |-> 1, didSplit |-> FALSE, s |-> s],
                          2 * ((MAP_WIDTH * MAP_HEIGHT) \div (MIN_LEAF_SIZE * MIN_LEAF_SIZE)))
    IN  IF loopAgain(pass.didSplit) THEN SplitLoop(pass.leafs, pass.s) ELSE pass

----------------------------------------------------------------------------
(* Rooms and corridors *)

\* new Room(x, y, width, height)
Room(x, y, width, height) == [x |-> x, y |-> y, width |-> width, height |-> height, doors |-> <<>>]

\* the doorPositions array of getDoorPosition
doorPositionsOutset(room) ==
    << <<room.x + 1, room.y - 1>>,
       <<room.x + room.width - 2, room.y - 1>>,
       <<room.x + 1, room.y + room.height>>,
       <<room.x + room.width - 2, room.y + room.height>>,
       <<room.x - 1, room.y + 1>>,
       <<room.x - 1, room.y + room.height - 2>>,
       <<room.x + room.width, room.y + 1>>,
       <<room.x + room.width, room.y + room.height - 2>> >>
doorPositions(room) ==
    << <<room.x + 1, room.y>>,
       <<room.x + room.width - 2, room.y>>,
       <<room.x + 1, room.y + room.height - 1>>,
       <<room.x + room.width - 2, room.y + room.height - 1>>,
       <<room.x, room.y + 1>>,
       <<room.x, room.y + room.height - 2>>,
       <<room.x + room.width - 1, room.y + 1>>,
       <<room.x + room.width - 1, room.y + room.height - 2>> >>

getDoorPosition(room, s) == pick(s, doorPositions(room))

carveHorizontalTunnel(x1, x2, y, m) ==
    [m EXCEPT ![y] = [x \in Xs |-> IF x >= Min2(x1, x2) /\ x <= Max2(x1, x2) THEN TILE_FLOOR ELSE @[x]]]

carveVerticalTunnel(y1, y2, x, m) ==
    [yy \in Ys |-> IF yy >= Min2(y1, y2) /\ yy <= Max2(y1, y2)
                   THEN [m[yy] EXCEPT ![x] = TILE_FLOOR] ELSE m[yy]]

isCornerOrNextToOne(room, door) ==
    /\ (door[1] - room.x) \in {0, 1, room.width - 2, room.width - 1}
    /\ (door[2] - room.y) \in {0, 1, room.height - 2, room.height - 1}

\* checkAndPlaceStone: isCorner
isCorner(room, door) ==
    /\ (door[1] = room.x \/ door[1] = room.x + room.width - 1)
    /\ (door[2] = room.y \/ door[2] = room.y + room.height - 1)

checkAndPlaceStoneAtDoor(room, door, m) == [m EXCEPT ![door[2]][door[1]] = TILE_STONE]
checkAndPlaceStone(room, door, m) ==
    LET stone == IF door[1] = room.x THEN <<door[1] + 1, door[2]>>
                 ELSE IF door[1] = room.x + room.width - 1 THEN <<door[1] - 1, door[2]>>
                 ELSE IF door[2] = room.y THEN <<door[1], door[2] + 1>>
                 ELSE IF door[2] = room.y + room.height - 1 THEN <<door[1], door[2] - 1>>
                 ELSE door
    IN  IF isCorner(room, door) THEN m ELSE [m EXCEPT ![stone[2]][stone[1]] = TILE_STONE]

\* createCorridor(roomA, roomB, map, random) on the rooms numbered a and b.
\* g carries the map, the rooms list, the leafs and the generator state.
createCorridor(a, b, g) ==
    LET roomA == g.rooms[a]
        roomB == g.rooms[b]
        doorA == getDoorPosition(roomA, g.s)
        s1 == Step(g.s)
        doorB == getDoorPosition(roomB, s1)
        s2 == Step(s1)
        m1 == [[g.map EXCEPT ![doorA[2]][doorA[1]] = TILE_FLOOR] EXCEPT ![doorB[2]][doorB[1]] = TILE_FLOOR]
        m2 == IF between(s2, 0, 1) = 1
              THEN carveVerticalTunnel(doorA[2], doorB[2], doorB[1],
                       carveHorizontalTunnel(doorA[1], doorB[1], doorA[2], m1))
              ELSE carveHorizontalTunnel(doorA[1], doorB[1], doorB[2],
                       carveVerticalTunnel(doorA[2], doorB[2], doorA[1], m1))
    IN  [g EXCEPT !.map = checkAndPlaceStone(roomB, doorB, checkAndPlaceStone(roomA, doorA, m2)),
                  !.rooms = [[g.rooms EXCEPT ![a].doors = Append(@, doorA)]
                                      EXCEPT ![b].doors = Append(@, doorB)],
                  !.s = Step(s2)]

\* Leaf.getRoom on leaf i: the room index (0 for null) and the generator state
RECURSIVE getRoom(_, _, _)
getRoom(leafs, i, s) ==
    IF leafs[i].room # 0 THEN [room |-> leafs[i].room, s |-> s]
    ELSE LET l == IF leafs[i].leftChild # 0 THEN getRoom(leafs, leafs[i].leftChild, s)
                  ELSE [room |-> 0, s |-> s]
             r == IF leafs[i].rightChild # 0 THEN getRoom(leafs, leafs[i].rightChild, l.s)
                  ELSE [room |-> 0, s |-> l.s]
         IN  IF l.room = 0 /\ r.room = 0 THEN [room |-> 0, s |-> r.s]
             ELSE IF l.room = 0 THEN [room |-> r.room, s |-> r.s]
             ELSE IF r.room = 0 THEN [room |-> l.room, s |-> r.s]
             ELSE IF between(r.s, 0, 1) = 0 THEN [room |-> l.room, s |-> Step(r.s)]
             ELSE [room |-> r.room, s |-> Step(r.s)]

\* the room-digging loops of Leaf.createRooms
digRoomWhole(m, room) ==
    [y \in Ys |-> IF y >= room.y /\ y < room.y + room.height
                  THEN [x \in Xs |-> IF x >= room.x /\ x < room.x + room.width
                                     THEN TILE_FLOOR ELSE m[y][x]]
                  ELSE m[y]]
digRoom(m, room) ==
    [y \in Ys |-> IF y >= room.y + 1 /\ y < room.y + room.height - 1
                  THEN [x \in Xs |-> IF x >= room.x + 1 /\ x < room.x + room.width - 1
                                     THEN TILE_FLOOR ELSE m[y][x]]
                  ELSE m[y]]

\* this.leftChild != null && this.rightChild != null
bothChildrenOfLeaves(leafs, i) ==
    /\ leafs[i].leftChild # 0 /\ leafs[i].rightChild # 0
    /\ leafs[leafs[i].leftChild].leftChild = 0 /\ leafs[leafs[i].rightChild].leftChild = 0

\* this.leftChild != null && this.rightChild != null
bothChildren(leafs, i) == leafs[i].leftChild # 0 /\ leafs[i].rightChild # 0

\* Leaf.createRooms on leaf i.  A subtree always adds a room; the test on
\* g1.rooms and g2.rooms makes the left subtree be evaluated before the
\* right one and both before the corridor.  g.corridors lists the calls of
\* createCorridor: the leaf that made the call, the two rooms and the
\* length of the rooms list at the call.
RECURSIVE createRooms(_, _)
createRooms(i, g) ==
    LET leaf == g.leafs[i]
    IN  IF leaf.leftChild # 0 \/ leaf.rightChild # 0
        THEN LET g1 == IF leaf.leftChild # 0 THEN createRooms(leaf.leftChild, g) ELSE g
                 g2 == IF leaf.rightChild # 0 THEN createRooms(leaf.rightChild, g1) ELSE g1
                 a == getRoom(g2.leafs, leaf.leftChild, g2.s)
                 b == getRoom(g2.leafs, leaf.rightChild, a.s)
             IN  IF g1.rooms = <<>> \/ g2.rooms = <<>> THEN g2
                 ELSE IF bothChildren(g2.leafs, i)
                 THEN createCorridor(a.room, b.room,
                          [g2 EXCEPT !.s = b.s,
                                     !.corridors = Append(@, [leaf |-> i, roomA |-> a.room, roomB |-> b.room,
                                                              rooms |-> Len(g2.rooms)])])
                 ELSE g2
        ELSE LET roomSizeWidth == between(g.s, 4, leaf.width - 2)
                 s1 == Step(g.s)
                 roomSizeHeight == between(s1, 4, leaf.height - 2)
                 s2 == Step(s1)
                 roomPosX == between(s2, leaf.x + 1, leaf.x + leaf.width - roomSizeWidth - 1)
                 s3 == Step(s2)
                 roomPosY == between(s3, leaf.y + 1, leaf.y + leaf.height - roomSizeHeight - 1)
                 room == Room(roomPosX, roomPosY, roomSizeWidth, roomSizeHeight)
             IN  [leafs |-> [g.leafs EXCEPT ![i].room = Len(g.rooms) + 1],
                  rooms |-> Append(g.rooms, room),
                  map |-> digRoom(g.map, room),
                  s |-> Step(s3),
                  corridors |-> g.corridors]

\* function generateDungeon(map, random); g.rooms is the global rooms list
buildDungeon(g) ==
    LET rootLeaf == Leaf(0, 0, MAP_WIDTH, MAP_HEIGHT)
        tree == SplitLoop(<<rootLeaf>>, g.s)
    IN  createRooms(1, [leafs |-> tree.leafs, rooms |-> g.rooms, map |-> g.map, s |-> tree.s,
                        corridors |-> <<>>])

----------------------------------------------------------------------------
(* Lava *)

\* the tiles of the grid in the order of the nested y / x scan loops
ScanOrder == [i \in 1 .. (MAP_WIDTH * MAP_HEIGHT) |-> <<(i - 1) % MAP_WIDTH, (i - 1) \div MAP_WIDTH>>]

Interior(p) == p[1] >= 1 /\ p[1] < MAP_WIDTH - 1 /\ p[2] >= 1 /\ p[2] < MAP_HEIGHT - 1

adjacentToFloor(m, p) ==
    \/ m[p[2]][p[1] - 1] = TILE_FLOOR
    \/ m[p[2]][p[1] + 1] = TILE_FLOOR
    \/ m[p[2] - 1][p[1]] = TILE_FLOOR
    \/ m[p[2] + 1][p[1]] = TILE_FLOOR

lavaCandidatesAnyWall(m) ==
    SelectSeq(ScanOrder, LAMBDA p : Interior(p) /\ m[p[2]][p[1]] = TILE_WALL)

\* the wallTiles list of addLava
lavaCandidates(m) ==
    SelectSeq(ScanOrder, LAMBDA p : Interior(p) /\ m[p[2]][p[1]] = TILE_WALL /\ adjacentToFloor(m, p))

\* addLava(map, random): the map and the generator state afterwards
addLava(m, s) ==
    LET wallTiles == lavaCandidates(m)
        numLava == Len(wallTiles) \div 20
        sh == shuffle(s, wallTiles)
        lava == {sh.array[i] : i \in 1 .. numLava}
    IN  [map |-> [y \in Ys |-> [x \in Xs |-> IF <<x, y>> \in lava THEN TILE_LAVA ELSE m[y][x]]],
         s |-> sh.s]

----------------------------------------------------------------------------
(* GameScene: one generation attempt *)

floorTilesOf(m) == SelectSeq(ScanOrder, LAMBDA p : m[p[2]][p[1]] = TILE_FLOOR)

\* the threshold of `distance >= 5` and `maxDistance < 5`
MinExitDistanceLow == 5 - 1
MinExitDistance == 5

\* The visited.forEach loop of placeStartAndExit.  It leaves in
\* maxDistance the largest recorded distance that is at least
\* MinExitDistance and belongs to a tile other than the start (0 if there
\* is none), and in furthestPositions the tiles recorded at that distance,
\* in the order of the visited set.
furthest(found, start) ==
    LET Counts(key) == found.distances[key] >= MinExitDistance /\ key # start
        far == {found.distances[key] : key \in {k \in DOMAIN found.distances : Counts(k)}}
        maxDistance == IF far = {} THEN 0 ELSE CHOOSE d \in far : \A e \in far : e <= d
    IN  [maxDistance |-> maxDistance,
         furthestPositions |->
             SelectSeq(found.visited, LAMBDA key : Counts(key) /\ found.distances[key] = maxDistance)]

\* GameScene.placeStartAndExit on map m: `result` is "true", "false" or
\* "threw" (no Floor tile: this.startPoint is undefined when its x is read).
placeStartAndExit(m, oldExit, s) ==
    LET floorTiles == floorTilesOf(m)
        sh == shuffle(s, floorTiles)
        start == sh.array[1]
        found == findReachablePositions(m, start[1], start[2])
        far == furthest(found, start)
    IN  IF floorTiles = <<>>
        THEN [result |-> "threw", startPoint |-> NullPoint, exitPoint |-> oldExit,
              found |-> <<>>, s |-> sh.s]
        ELSE IF far.maxDistance < MinExitDistance \/ Len(far.furthestPositions) = 0
        THEN [result |-> "false", startPoint |-> start, exitPoint |-> oldExit,
              found |-> found, s |-> sh.s]
        ELSE [result |-> "true", startPoint |-> start, exitPoint |-> pick(sh.s, far.furthestPositions),
              found |-> found, s |-> Step(sh.s)]

\* this.map[this.exitPoint.y][this.exitPoint.x] = TILE_EXIT
markExitOmitted(m, exit) == m
markExit(m, exit) == [m EXCEPT ![exit[2]][exit[1]] = TILE_EXIT]

\* if (isReachable(this.map, this.startPoint, pos)), given the visited set
coinAllowedAlways(visited, p) == TRUE
coinAllowed(visited, p) == posKey(p[1], p[2]) \in visited

\* GameScene.placeGoldCoin: the map and coinPosition afterwards.  The loop
\* stops at the first position of the shuffled list that isReachable
\* accepts; every isReachable call of the loop runs the same search, from
\* the start on the unchanged map, so the search is evaluated once.
placeGoldCoin(m, start, exit, oldCoin, s) ==
    LET floorTiles == SelectSeq(floorTilesOf(m), LAMBDA p : p # start /\ p # exit)
        sh == shuffle(s, floorTiles)
        visited == SeqToSet(findReachablePositions(m, start[1], start[2]).visited)
        reachable == SelectSeq(sh.array, LAMBDA p : coinAllowed(visited, p))
    IN  IF reachable = <<>> THEN [map |-> m, coinPosition |-> oldCoin]
        ELSE [map |-> [m EXCEPT ![reachable[1][2]][reachable[1][1]] = TILE_COIN],
              coinPosition |-> reachable[1]]

\* GameScene.generateDungeon(seed), given what its calls of
\* generateDungeon(map, random), addLava and placeStartAndExit left (built,
\* lava, placed): the scene's fields after the call and whether it returned
\* or threw.  A throw leaves the fields as they were when it happened.
generateDungeon(built, lava, placed, oldExit, oldCoin) ==
    LET marked == markExit(lava.map, placed.exitPoint)
        coin == IF between(placed.s, 1, 5) = 1
                THEN placeGoldCoin(marked, placed.startPoint, placed.exitPoint, oldCoin, Step(placed.s))
                ELSE [map |-> marked, coinPosition |-> oldCoin]
    IN  IF placed.result # "true"
        THEN [outcome |-> IF placed.result = "false" THEN "threw Error" ELSE "threw TypeError",
              map |-> lava.map, rooms |-> built.rooms, startPoint |-> placed.startPoint,
              exitPoint |-> oldExit, coinPosition |-> oldCoin, found |-> placed.found,
              marked |-> <<>>, coinDrawn |-> FALSE]
        ELSE [outcome |-> "returned",
              map |-> coin.map, rooms |-> built.rooms, startPoint |-> placed.startPoint,
              exitPoint |-> placed.exitPoint, coinPosition |-> coin.coinPosition, found |-> placed.found,
              marked |-> marked, coinDrawn |-> (between(placed.s, 1, 5) = 1)]

----------------------------------------------------------------------------
(* Scenes *)

\* let seed = this.level * 1000; ... this.generateDungeon(seed + attempt)
attemptSeedFixed(lvl, k) == lvl * 1000
attemptSeed(lvl, k) == lvl * 1000 + k

\* what create keeps of coinPosition when data carries none
createCoinStale(old) == old
createCoin(old) == NullPoint

\* this.map = []; rooms = [] at the head of GameScene.generateDungeon: the
\* rooms list an attempt starts from
resetRoomsOmitted(old) == old
resetRooms(old) == <<>>

\* GameScene.createCentipede on the scene's map and start point: the
\* possiblePositions it collects (the centipede starts on one of them)
createCentipede(m, start) ==
    [map |-> m,
     possiblePositions |->
         SelectSeq(ScanOrder, LAMBDA p : Interior(p) /\ m[p[2]][p[1]] = TILE_FLOOR /\ p # start)]

\* the dungeon a successful generateDungeon leaves in the scene
\* Word Snake after the construction of its scenes (game.js 305-318), before
\* BootScene has started a game; nothing is stored in localStorage yet
WordIdle ==
    /\ wordScene = "BootScene"
    /\ currentWord = <<>>
    /\ spelledLetters = <<>>
    /\ wordLevel = 1
    /\ segments = 0
    /\ lettersOnField = <<>>
    /\ currentLength = 0
    /\ bestThisGame = 0
    /\ leaderboard = <<>>
    /\ processed = <<>>
    /\ wordsSpelled = 0
    /\ finishedGames = <<>>

\* no service worker script has been run
WorkerIdle ==
    /\ worker = "none"
    /\ appVersion = 0
    /\ cacheStorage = <<>>
    /\ server = <<>>
    /\ online = TRUE
    /\ keys = <<>>
    /\ served = <<>>
    /\ missed = {}

OtherIdle == WordIdle /\ WorkerIdle

Dungeon == [map |-> map, startPoint |-> startPoint, exitPoint |-> exitPoint, coinPosition |-> coinPosition]

Init ==
    /\ scene = "BootScene"
    /\ pc = "boot"
    /\ level = 1
    /\ lives = 3
    /\ map = <<>>
    /\ startPoint = NullPoint
    /\ exitPoint = NullPoint
    /\ coinPosition = NullPoint
    /\ rooms = <<>>
    /\ attempt = 0
    /\ analysis = <<>>
    /\ outcome = "none"
    /\ seedLog = <<>>
    /\ emitLog = [l \in 1 .. MaxLevel |-> <<>>]
    /\ regen = FALSE
    /\ source \in 0 .. MaxSource
    /\ OtherIdle
    /\ stages = <<>>
    /\ centipede = <<>>
    /\ call = <<>>
    /\ player = NullPoint
    /\ coinsCollected = 0

\* GameScene.create(data) without data.mapData, up to the call of
\* generateDungeonWithRetries and the first test of its loop
createFresh(lvl, lvs) ==
    /\ scene' = "GameScene"
    /\ level' = lvl
    /\ lives' = lvs
    /\ map' = <<>>
    /\ startPoint' = NullPoint
    /\ exitPoint' = NullPoint
    /\ coinPosition' = createCoin(coinPosition)
    /\ attempt' = 0
    /\ seedLog' = <<>>
    /\ outcome' = "none"
    /\ pc' = "retries"
    /\ UNCHANGED <<rooms, analysis, emitLog, regen, source, stages, centipede, call, player>>

\* BootScene: space or tap starts GameScene with { level: 1, lives: 3 }
StartGame ==
    /\ UNCHANGED <<otherVars, coinsCollected>>
    /\ scene = "BootScene"
    /\ pc = "boot"
    /\ createFresh(1, 3)

\* where the retry loop goes after a generateDungeon call that ended in `how`
afterAttemptEscapes(how, k) ==
    IF how = "returned" THEN [pc |-> "play", attempt |-> k]
    ELSE [pc |-> "crashed", attempt |-> k]
afterAttempt(how, k) ==
    IF how = "returned" THEN [pc |-> "play", attempt |-> k]
    ELSE [pc |-> "retries", attempt |-> k + 1]

\* the loop bound of generateDungeonWithRetries
attemptsLeft(k) == k < maxAttempts

\* One iteration of the loop of generateDungeonWithRetries: try
\* this.generateDungeon(seed + attempt), statement by statement (a new
\* generator, an all-Wall map and an empty rooms list; the BSP dungeon; the
\* lava; the start and the exit; the rest), and either return or catch
\* and continue.
GenerateAttempt ==
    /\ UNCHANGED otherVars
    /\ pc = "retries"
    /\ attemptsLeft(attempt)
    /\ \E built \in {buildDungeon([map |-> AllWall, rooms |-> resetRooms(rooms),
                                    s |-> SeedSource(attemptSeed(level, attempt))])} :
       \E lava \in {addLava(built.map, built.s)} :
       \E placed \in {placeStartAndExit(lava.map, exitPoint, lava.s)} :
       \E r \in {generateDungeon(built, lava, placed, exitPoint, coinPosition)} :
       LET seed == attemptSeed(level, attempt)
           after == afterAttempt(r.outcome, attempt)
       IN  /\ map' = r.map
           /\ rooms' = r.rooms
           /\ startPoint' = r.startPoint
           /\ exitPoint' = r.exitPoint
           /\ coinPosition' = r.coinPosition
           /\ analysis' = r.found
           /\ outcome' = r.outcome
           /\ seedLog' = Append(seedLog, [seed |-> seed, outcome |-> r.outcome])
           /\ pc' = after.pc
           /\ attempt' = after.attempt
           /\ emitLog' = IF r.outcome = "returned" /\ emitLog[level] = <<>>
                         THEN [emitLog EXCEPT ![level] =
                                 [map |-> r.map, startPoint |-> r.startPoint,
                                  exitPoint |-> r.exitPoint, coinPosition |-> r.coinPosition]]
                         ELSE emitLog
           /\ regen' = (regen \/ (r.outcome = "returned" /\ emitLog[level] # <<>>))
           /\ stages' = [leafs |-> built.leafs, carved |-> built.map, lava |-> lava.map,
                         marked |-> r.marked, coinDrawn |-> r.coinDrawn,
                         corridors |-> built.corridors]
           /\ centipede' = IF r.outcome = "returned" THEN createCentipede(r.map, r.startPoint)
                           ELSE centipede
           /\ player' = IF r.outcome = "returned" THEN r.startPoint ELSE player
           /\ coinsCollected' = IF r.outcome = "returned" THEN 0 ELSE coinsCollected
    /\ UNCHANGED <<scene, level, lives, source, call>>

\* The loop of generateDungeonWithRetries ran out:
\* this.scene.start('BootScene'), which Phaser queues; the method returns
\* and create goes on with this.createCentipede() before BootScene starts
GenerationExhausted ==
    /\ UNCHANGED otherVars
    /\ pc = "retries"
    /\ ~attemptsLeft(attempt)
    /\ centipede' = createCentipede(map, startPoint)
    /\ scene' = "BootScene"
    /\ pc' = "boot"
    /\ UNCHANGED <<level, lives, map, startPoint, exitPoint, coinPosition, rooms, attempt,
                   analysis, outcome, seedLog, emitLog, regen, source, stages, call, playerVars>>

\* checkPlayerPosition with the player on the exit tile:
\* this.level++; this.scene.restart({ level, lives })
ReachExit ==
    /\ UNCHANGED <<otherVars, coinsCollected>>
    /\ pc = "play"
    /\ level < MaxLevel
    /\ createFresh(level + 1, lives)

\* this.lives > 0 in handleDeath
livesRemainNever(lvs) == FALSE
livesRemain(lvs) == lvs > 0

\* handleDeath called with lvs lives and the grid m: a life is lost; with
\* lives left the scene restarts on the same map and create draws it and
\* puts the player on the start point, otherwise BootScene starts
handleDeath(lvs, m) ==
    /\ lives' = lvs - 1
    /\ map' = m
    /\ IF livesRemain(lvs - 1)
       THEN /\ UNCHANGED <<scene, pc>>
            /\ centipede' = createCentipede(m, startPoint)
            /\ player' = startPoint
       ELSE /\ scene' = "BootScene" /\ pc' = "boot"
            /\ UNCHANGED <<centipede, player>>
    /\ UNCHANGED <<level, startPoint, exitPoint, coinPosition, rooms, attempt,
                   analysis, outcome, seedLog, emitLog, regen, source, stages, call>>

\* The restart key or the Retry button: handleDeath
HandleDeath ==
    /\ UNCHANGED <<otherVars, coinsCollected>>
    /\ pc = "play"
    /\ handleDeath(lives, map)

Next == StartGame \/ GenerateAttempt \/ GenerationExhausted \/ ReachExit \/ HandleDeath

Spec == Init /\ [][Next]_vars

----------------------------------------------------------------------------
(* Emitted dungeons *)

\* generateDungeon has returned: the scene holds an emitted dungeon
Emitted == pc = "play"

TileAt(p) == map[p[2]][p[1]]

VisitedFromStart == SeqToSet(findReachablePositions(map, startPoint[1], startPoint[2]).visited)

\* C1: in every emitted dungeon the exit is in the visited set that
\* findReachablePositions computes from the start on the emitted grid.
C1_ExitReachable == Emitted => exitPoint \in VisitedFromStart

\* C1 witness: an emitted grid that carries both the Exit and a coin, with
\* the exit visited from the start.
C1_Witness ==
    /\ Emitted
    /\ coinPosition # NullPoint
    /\ TileAt(coinPosition) = TILE_COIN
    /\ TileAt(exitPoint) = TILE_EXIT
    /\ exitPoint \in VisitedFromStart

\* C2: the distance recorded for the exit of an emitted dungeon is at least
\* 5 and is the largest recorded distance; placeStartAndExit returns false
\* exactly when no visited tile has a recorded distance of 5 or more.
C2_ExitFurthest ==
    /\ Emitted =>
          /\ analysis.distances[exitPoint] >= 5
          /\ \A k \in DOMAIN analysis.distances :
                 analysis.distances[k] <= analysis.distances[exitPoint]
    /\ outcome \in {"returned", "threw Error"} =>
          ((outcome = "threw Error") <=> (\A k \in DOMAIN analysis.distances : analysis.distances[k] < 5))

\* C2 witness: an emitted dungeon whose exit lies beyond distance 5 while
\* another visited tile sits at distance 5 or more but nearer than the exit.
C2_Witness ==
    /\ Emitted
    /\ analysis.distances[exitPoint] > 5
    /\ \E k \in DOMAIN analysis.distances :
          analysis.distances[k] >= 5 /\ analysis.distances[k] < analysis.distances[exitPoint]

\* C3: a level generated again later in the session, after other levels
\* were generated, gets the grid, start, exit and coin position it got the
\* first time.
C3_Deterministic == (Emitted /\ emitLog[level] # <<>>) => Dungeon = emitLog[level]

\* C3 witness: level 1 emitted a second time, after level 2 had been emitted.
C3_Witness ==
    /\ Emitted
    /\ regen
    /\ level = 1
    /\ emitLog[2] # <<>>
    /\ emitLog[2].coinPosition # coinPosition

\* C4: a failed attempt is followed by the next attempt index with the
\* scene still GameScene; the retry loop is left only by a returned
\* attempt or, with all attempts used up, by starting BootScene.
C4_FailuresAreRetried ==
    [][pc = "retries" =>
         /\ (attempt < maxAttempts /\ outcome' # "returned") =>
                (pc' = "retries" /\ attempt' = attempt + 1 /\ scene' = "GameScene")
         /\ pc' # "retries" =>
                \/ (outcome' = "returned" /\ pc' = "play" /\ scene' = "GameScene")
                \/ (attempt = maxAttempts /\ scene' = "BootScene")]_vars

\* C4 witness: the loop is about to run a further attempt after a failure.
C4_Witness ==
    /\ pc = "retries"
    /\ scene = "GameScene"
    /\ attempt >= 1
    /\ attempt < maxAttempts
    /\ outcome = "threw Error"

\* C5: at most 100 attempts are run; the k-th (from 0) uses seed
\* level*1000 + k; only the last attempt run can be a successful one.
C5_BoundedAttempts ==
    /\ Len(seedLog) <= 100
    /\ \A i \in 1 .. Len(seedLog) :
          /\ seedLog[i].seed = level * 1000 + (i - 1)
          /\ (i < Len(seedLog) => seedLog[i].outcome # "returned")
    /\ pc = "retries" => attempt = Len(seedLog)
    /\ Emitted => seedLog[Len(seedLog)].outcome = "returned"

\* C5 witness: all 100 attempts failed and the loop has ended.
C5_Witness ==
    /\ scene = "BootScene"
    /\ Len(seedLog) = 100
    /\ seedLog[100].seed = level * 1000 + 99
    /\ seedLog[100].outcome # "returned"

\* C6: an emitted grid has exactly one Exit tile, at exitPoint; exitPoint
\* differs from startPoint and the start tile is Floor.
C6_OneExit ==
    Emitted =>
        /\ {p \in Xs \X Ys : TileAt(p) = TILE_EXIT} = {exitPoint}
        /\ exitPoint # startPoint
        /\ TileAt(startPoint) = TILE_FLOOR

\* C6 witness: an emitted grid with its Exit tile and a coin placed.
C6_Witness ==
    /\ Emitted
    /\ TileAt(exitPoint) = TILE_EXIT
    /\ TileAt(startPoint) = TILE_FLOOR
    /\ coinPosition # NullPoint
    /\ coinPosition # startPoint

----------------------------------------------------------------------------
(* Analyzer harness: findReachablePositions applied to chosen grids *)

\* The test window sits in the grid's top-left corner, so slides meet both
\* the edge of the grid and plain Wall tiles.
Window == (0 .. (WinW - 1)) \X (0 .. 2)

BlockKinds == {TILE_WALL, TILE_STONE, TILE_LAVA}

\* An open floor window in which the tiles of `blocked` carry the given kinds.
WindowGrid(blocked, kind) ==
    [y \in Ys |-> [x \in Xs |->
        IF <<x, y>> \in Window
        THEN (IF <<x, y>> \in blocked THEN kind[<<x, y>>] ELSE TILE_FLOOR)
        ELSE TILE_WALL]]

\* A horizontal or vertical corridor of `len` tiles beyond the tile (1, 1),
\* walled on all sides, in which tile number `at` carries `kind`.
CorridorKinds == {TILE_FLOOR, TILE_COIN, TILE_EXIT, TILE_STONE, TILE_LAVA}

CorridorGrid(len, horizontal, at, kind) ==
    [y \in Ys |-> [x \in Xs |->
        LET along == IF horizontal THEN x ELSE y
            across == IF horizontal THEN y ELSE x
        IN  IF across = 1 /\ along >= 1 /\ along <= len + 1
            THEN (IF along = at + 1 THEN kind ELSE TILE_FLOOR)
            ELSE TILE_WALL]]

AmazegameIdle ==
    /\ scene = "GameScene"
    /\ level = 1
    /\ lives = 3
    /\ exitPoint = NullPoint
    /\ coinPosition = NullPoint
    /\ rooms = <<>>
    /\ attempt = 0
    /\ outcome = "none"
    /\ seedLog = <<>>
    /\ emitLog = [l \in 1 .. MaxLevel |-> <<>>]
    /\ regen = FALSE
    /\ source = 0
    /\ stages = <<>>
    /\ centipede = <<>>
    /\ player = NullPoint
    /\ coinsCollected = 0

AnalyzerIdle == OtherIdle /\ AmazegameIdle

InitAnalyzer ==
    /\ AnalyzerIdle
    /\ call = <<>>
    /\ pc = "input"
    /\ analysis = <<>>
    /\ \/ \E blocked \in SUBSET Window :
            /\ Cardinality(blocked) <= MaxBlocks
            /\ \E kind \in [blocked -> BlockKinds] :
                 /\ map = WindowGrid(blocked, kind)
                 /\ \E s \in Window \ blocked : startPoint = s
       \/ \E len \in 1 .. MaxCorridor, horizontal \in BOOLEAN :
            \E at \in 1 .. len, kind \in CorridorKinds :
                 /\ map = CorridorGrid(len, horizontal, at, kind)
                 /\ startPoint = <<1, 1>>

\* findReachablePositions(map, startX, startY), called once
Analyze ==
    /\ UNCHANGED otherVars
    /\ pc = "input"
    /\ analysis' = findReachablePositions(map, startPoint[1], startPoint[2])
    /\ pc' = "analyzed"
    /\ UNCHANGED <<scene, level, lives, map, startPoint, exitPoint, coinPosition, rooms,
                   attempt, outcome, seedLog, emitLog, regen, source, stages, centipede, call, playerVars>>

NextAnalyzer == Analyze

SpecAnalyzer == InitAnalyzer /\ [][NextAnalyzer]_vars

----------------------------------------------------------------------------
(* Slide moves as the claims define them, computed without a queue *)

\* Landing tile of the slide from p in direction dir, or NullPoint when the
\* move is not valid (no progress, or stopped by a Hazard tile).
ValidSlide(m, p, dir) ==
    LET s == Slide(m, p[1], p[2], dir[1], dir[2])
    IN  IF s.steps > 0 /\ s.tile # TILE_LAVA THEN <<s.x, s.y>> ELSE NullPoint

Landings(m, p) == {ValidSlide(m, p, directions[i]) : i \in 1 .. Len(directions)} \ {NullPoint}

\* Minimum number of valid slide moves from the start to every tile that
\* valid slide moves can reach: layer d holds the tiles first reached by
\* the d-th move.
RECURSIVE MinMoves(_, _, _, _)
MinMoves(m, frontier, d, known) ==
    LET next == UNION {Landings(m, p) : p \in frontier} \ DOMAIN known
    IN  IF next = {} THEN known
        ELSE MinMoves(m, next, d + 1, [k \in next |-> d + 1] @@ known)

SlideDistances(m, start) == MinMoves(m, {start}, 0, (start :> 0))

Analyzed == pc = "analyzed"

\* C7 (as claimed): every recorded distance is the minimum number of valid
\* slide moves that reach the tile from the start.
C7_RecordedIsMinimum ==
    Analyzed => \A k \in DOMAIN analysis.distances :
                    analysis.distances[k] = SlideDistances(map, startPoint)[k]

\* C7 failing input: start (1, 1) in the open window with lava at (1, 0)
\* and a wall at (2, 2).  The slide down lands on (1, 2) in one move, but
\* the search records (1, 2) at distance 3.
C7_Witness ==
    /\ Analyzed
    /\ startPoint = <<1, 1>>
    /\ map = WindowGrid({<<1, 0>>, <<2, 2>>}, (<<1, 0>> :> TILE_LAVA) @@ (<<2, 2>> :> TILE_WALL))
    /\ SlideDistances(map, startPoint)[<<1, 2>>] = 1
    /\ analysis.distances[<<1, 2>>] = 3

\* C8 (as claimed): every tile that a sequence of valid slide moves reaches
\* from the start is in the visited set.
C8_VisitsAllReachable ==
    Analyzed => DOMAIN SlideDistances(map, startPoint) \subseteq SeqToSet(analysis.visited)

\* C8 failing input: start (1, 1) in the open window with lava at (1, 0).
\* The slide up is stopped by the lava, the slide down is never tried, and
\* (1, 2), one valid slide from the start, is not visited.
C8_Witness ==
    /\ Analyzed
    /\ startPoint = <<1, 1>>
    /\ map = WindowGrid({<<1, 0>>}, (<<1, 0>> :> TILE_LAVA))
    /\ <<1, 2>> \in Landings(map, startPoint)
    /\ <<1, 2>> \notin SeqToSet(analysis.visited)

\* C9: started on a Floor tile, the analyzer visits no Hazard, Wall or
\* Obstacle tile.
C9_NoBlockedTileVisited ==
    (Analyzed /\ map[startPoint[2]][startPoint[1]] = TILE_FLOOR) =>
        \A k \in SeqToSet(analysis.visited) :
            map[k[2]][k[1]] \notin {TILE_LAVA, TILE_WALL, TILE_STONE}

\* C9 witness: a search from a Floor start that visited several tiles on a
\* grid holding lava and stone.
C9_Witness ==
    /\ Analyzed
    /\ map[startPoint[2]][startPoint[1]] = TILE_FLOOR
    /\ Len(analysis.visited) >= 4
    /\ \E p \in Window : map[p[2]][p[1]] = TILE_LAVA
    /\ \E p \in Window : map[p[2]][p[1]] = TILE_STONE

NoDuplicates(s) == \A i, j \in 1 .. Len(s) : s[i] = s[j] => i = j

\* The corridor grids whose run beyond the start is all passable.  Such a
\* grid has Wall at its corner and a passable tile at the corridor's end.
OpenCorridor(len) ==
    /\ map[0][0] = TILE_WALL
    /\ \E horizontal \in BOOLEAN :
          LET last == IF horizontal THEN map[1][len + 1] ELSE map[len + 1][1]
          IN  /\ last \in {TILE_FLOOR, TILE_COIN, TILE_EXIT}
              /\ map = CorridorGrid(len, horizontal, len, last)

CorridorEnd(len) ==
    IF map[1][2] # TILE_WALL THEN <<len + 1, 1>> ELSE <<1, len + 1>>

\* C10: the start has distance 0; every other visited tile is the landing
\* tile of a valid slide from a visited tile recorded one hop nearer; a
\* slide along a whole corridor counts one hop whatever its length; and no
\* tile is pushed on the queue twice.
C10_OneHopPerSlide ==
    Analyzed =>
        /\ analysis.distances[startPoint] = 0
        /\ \A k \in SeqToSet(analysis.visited) \ {startPoint} :
               \E u \in SeqToSet(analysis.visited) :
                   /\ k \in Landings(map, u)
                   /\ analysis.distances[u] = analysis.distances[k] - 1
        /\ \A len \in 1 .. MaxCorridor :
               OpenCorridor(len) => analysis.distances[CorridorEnd(len)] = 1
        /\ NoDuplicates(analysis.pushed)
        /\ SeqToSet(analysis.pushed) = SeqToSet(analysis.visited)

\* C10 witness: the longest corridor, slid through in one hop.
C10_Witness ==
    /\ Analyzed
    /\ OpenCorridor(MaxCorridor)
    /\ CorridorEnd(MaxCorridor) \in DOMAIN analysis.distances
    /\ analysis.distances[CorridorEnd(MaxCorridor)] = 1

----------------------------------------------------------------------------
(* The player's moves: GameScene.setPlayerMovement *)

\* tile == TILE_WALL || tile == TILE_STONE: the next tile is not entered
blocksPlayerUnlessFloor(tile) == tile # TILE_FLOOR
blocksPlayer(tile) == tile = TILE_WALL \/ tile = TILE_STONE

\* tile == TILE_EXIT || tile == TILE_LAVA: the slide ends on the tile entered
endsMoveOnLavaOnly(tile) == tile = TILE_LAVA
endsMove(tile) == tile = TILE_EXIT \/ tile = TILE_LAVA

\* The while (true) loop of setPlayerMovement(dx, dy) with the player on
\* tile p: the number of tiles entered and endTileX, endTileY
setPlayerMovement(m, p, dx, dy) ==
    LET Enters(k) == /\ InGrid(p[1] + k * dx, p[2] + k * dy)
                     /\ ~blocksPlayer(m[p[2] + k * dy][p[1] + k * dx])
        Ends(k) == endsMove(m[p[2] + k * dy][p[1] + k * dx])
        tiles == CHOOSE k \in 0 .. (MAP_WIDTH + MAP_HEIGHT) :
                     /\ \A j \in 1 .. k : Enters(j)
                     /\ \A j \in 1 .. (k - 1) : ~Ends(j)
                     /\ (k > 0 /\ Ends(k)) \/ ~Enters(k + 1)
    IN  [tiles |-> tiles, end |-> <<p[1] + tiles * dx, p[2] + tiles * dy>>]

\* the tiles a move from p can end on without having entered lava
SafeMoves(m, p) ==
    {e \in {setPlayerMovement(m, p, directions[i][1], directions[i][2]).end : i \in 1 .. Len(directions)} :
        e # p /\ m[e[2]][e[1]] # TILE_LAVA}

\* The least number of moves that take the player from the start to each
\* tile a move can end on, lava never entered and no move made from the
\* exit: layer d holds the tiles first reached by the d-th move.
RECURSIVE PlayerMoves(_, _, _, _)
PlayerMoves(m, frontier, d, known) ==
    LET next == UNION {SafeMoves(m, p) : p \in {q \in frontier : m[q[2]][q[1]] # TILE_EXIT}} \ DOMAIN known
    IN  IF next = {} THEN known
        ELSE PlayerMoves(m, next, d + 1, [k \in next |-> d + 1] @@ known)

PlayerDistances(m, start) == PlayerMoves(m, {start}, 0, (start :> 0))

\* C33: in every emitted dungeon some sequence of the player's moves leads
\* from the start to the exit tile without entering lava, the centipede
\* left aside.
C33_SolvableByPlayer ==
    Emitted => exitPoint \in DOMAIN PlayerDistances(map, startPoint)

\* C33 witness: an emitted dungeon with lava in which the player can end a
\* move on lava and yet can reach the exit, which the map marks
C33_Witness ==
    /\ Emitted
    /\ TileAt(exitPoint) = TILE_EXIT
    /\ exitPoint \in DOMAIN PlayerDistances(map, startPoint)
    /\ \E p \in DOMAIN PlayerDistances(map, startPoint) : \E i \in 1 .. Len(directions) :
          LET e == setPlayerMovement(map, p, directions[i][1], directions[i][2]).end
          IN  map[e[2]][e[1]] = TILE_LAVA

\* C34: in every emitted dungeon no sequence of fewer than 5 of the player's
\* moves takes the player from the start onto the exit tile.
C34_PlayerNeedsFiveMoves ==
    Emitted => LET d == PlayerDistances(map, startPoint)
               IN  exitPoint \in DOMAIN d => d[exitPoint] >= 5

\* C34 witness: an emitted dungeon whose exit has a recorded distance of 5
\* or more and which the player reaches in fewer than 5 moves, the last of
\* them a slide that the exit tile ends and that the analyzer lets go on
C34_Witness ==
    /\ Emitted
    /\ analysis.distances[exitPoint] >= 5
    /\ exitPoint \in DOMAIN PlayerDistances(map, startPoint)
    /\ PlayerDistances(map, startPoint)[exitPoint] < 5
    /\ SlideDistances(map, startPoint)[exitPoint] >= 5

----------------------------------------------------------------------------
(* Playing a dungeon: the player's moves with what they meet on the way *)

\* this.map[tileY][tileX] = TILE_FLOOR in checkPlayerPosition
collectCoinKept(m, p) == m
collectCoin(m, p) == [m EXCEPT ![p[2]][p[1]] = TILE_FLOOR]

\* What a slide has done so far: the scene's lives and map, the coins
\* found, and whether handleDeath and the exit branch have been called
Slid(lvs, m) == [lives |-> lvs, map |-> m, coins |-> 0, died |-> FALSE, exited |-> FALSE]

\* checkPlayerPosition with the player on tile p
checkPlayerPosition(g, p) ==
    LET tile == g.map[p[2]][p[1]]
        g1 == IF tile = TILE_COIN
              THEN [g EXCEPT !.lives = @ + 1, !.map = collectCoin(g.map, p), !.coins = @ + 1]
              ELSE g
        g2 == IF tile = TILE_LAVA THEN [g1 EXCEPT !.died = TRUE] ELSE g1
    IN  IF p = exitPoint THEN [g2 EXCEPT !.exited = TRUE] ELSE g2

\* movePlayer over the frames of one slide of n tiles from p: the frames in
\* which the player's tile changes call checkPlayerPosition.  PLAYER_SPEED
\* is 60 tiles per second, so a frame can pass over tiles; framesOn holds
\* the tiles a frame ends on, the last tile of the slide always among them.
\* After handleDeath or the exit branch the scene restarts before the next
\* frame.
RECURSIVE movePlayer(_, _, _, _, _, _, _)
movePlayer(g, p, dx, dy, k, n, framesOn) ==
    IF k > n \/ g.died \/ g.exited THEN g
    ELSE movePlayer(IF k \in framesOn \/ k = n
                    THEN checkPlayerPosition(g, <<p[1] + k * dx, p[2] + k * dy>>)
                    ELSE g,
                    p, dx, dy, k + 1, n, framesOn)

\* One press of a cursor key or one swipe while the player stands still,
\* and the slide it starts, to its end: either every tile of the slide is
\* the player's tile in some frame or only the last one is
MovePlayer ==
    /\ UNCHANGED otherVars
    /\ pc = "play"
    /\ \E i \in 1 .. Len(directions), everyTile \in BOOLEAN :
       \E move \in {setPlayerMovement(map, player, directions[i][1], directions[i][2])} :
       \E g \in {movePlayer(Slid(lives, map), player, directions[i][1], directions[i][2], 1, move.tiles,
                             IF everyTile THEN 1 .. move.tiles ELSE {})} :
           /\ move.tiles > 0
           /\ coinsCollected' = coinsCollected + g.coins
           /\ IF g.died THEN handleDeath(g.lives, g.map)
              ELSE IF g.exited
              THEN /\ level < MaxLevel
                   /\ createFresh(level + 1, g.lives)
              ELSE /\ player' = move.end
                   /\ lives' = g.lives
                   /\ map' = g.map
                   /\ UNCHANGED <<scene, pc, level, startPoint, exitPoint, coinPosition, rooms, attempt,
                                  analysis, outcome, seedLog, emitLog, regen, source, stages, centipede, call>>

NextPlay == StartGame \/ GenerateAttempt \/ GenerationExhausted \/ HandleDeath \/ MovePlayer

SpecPlay == Init /\ [][NextPlay]_vars

\* the tiles on which one grid holds a coin and the other Floor
CoinsTaken(m1, m2) ==
    {p \in Xs \X Ys : m1[p[2]][p[1]] = TILE_COIN /\ m2[p[2]][p[1]] = TILE_FLOOR}

\* m2 is m1 but for coins that have become Floor
SameGridButCoins(m1, m2) ==
    \A p \in Xs \X Ys : m1[p[2]][p[1]] # m2[p[2]][p[1]] => p \in CoinsTaken(m1, m2)

\* what one step of the game does to level and lives, the coins found in
\* the step counted apart
LifeAndLevelStep ==
    LET gained == coinsCollected' - coinsCollected
        died == lives' = lives + gained - 1
    IN  /\ pc = "play" =>
              /\ lives' = lives + gained - 1 \/ lives' = lives + gained
              /\ (died /\ lives' > 0) =>
                     /\ scene' = "GameScene" /\ pc' = "play"
                     /\ level' = level
                     /\ startPoint' = startPoint /\ exitPoint' = exitPoint
                     /\ SameGridButCoins(map, map') /\ Cardinality(CoinsTaken(map, map')) = gained
                     /\ seedLog' = seedLog /\ stages' = stages
                     /\ player' = startPoint
              /\ (died /\ lives' <= 0) => (lives' = 0 /\ scene' = "BootScene" /\ pc' = "boot")
              /\ ~died =>
                     \/ /\ level' = level /\ pc' = "play" /\ scene' = "GameScene"
                        /\ SameGridButCoins(map, map')
                        /\ startPoint' = startPoint /\ exitPoint' = exitPoint
                     \/ /\ level' = level + 1 /\ pc' = "retries" /\ scene' = "GameScene"
                        /\ map' = <<>> /\ seedLog' = <<>>
                        /\ \E i \in 1 .. Len(directions) :
                              setPlayerMovement(map, player, directions[i][1], directions[i][2]).end = exitPoint
        /\ (pc = "boot" /\ pc' # "boot") =>
              (scene' = "GameScene" /\ pc' = "retries" /\ level' = 1 /\ lives' = 3 /\ map' = <<>>)
        /\ (pc = "retries" /\ pc' = "play") =>
              /\ level' = level /\ lives' = lives
              /\ Len(seedLog') = Len(seedLog) + 1
              /\ player' = startPoint'

----------------------------------------------------------------------------
(* The structure of a generated dungeon *)

\* generateDungeon has been called at least once: stages holds its products
Generated == stages # <<>>

BorderTiles == {p \in Xs \X Ys : ~Interior(p)}

BorderIsWall(m) == \A p \in BorderTiles : m[p[2]][p[1]] = TILE_WALL

IsGrid(m) == DOMAIN m = Ys /\ \A y \in Ys : DOMAIN m[y] = Xs

\* the rectangle of a room or leaf lies in the interior of the grid
RectInterior(r) ==
    Interior(<<r.x, r.y>>) /\ Interior(<<r.x + r.width - 1, r.y + r.height - 1>>)

\* C11: every border tile is Wall in the grid after the BSP carving (rooms,
\* doors, tunnels, stones), after the lava, after the exit mark and in the
\* grid the scene holds (emitted, or left by a failed attempt); the grids
\* keep their 35x35 shape, every room rectangle, every door and the start,
\* exit and coin points are interior tiles.  No operation writes Wall, so a
\* border tile that is Wall after a stage was Wall all through it.
C11_BorderStaysWall ==
    Generated =>
        /\ IsGrid(stages.carved) /\ BorderIsWall(stages.carved)
        /\ IsGrid(stages.lava) /\ BorderIsWall(stages.lava)
        /\ stages.marked # <<>> => IsGrid(stages.marked) /\ BorderIsWall(stages.marked)
        /\ map # <<>> => IsGrid(map) /\ BorderIsWall(map)
        /\ \A i \in 1 .. Len(rooms) :
              /\ RectInterior(rooms[i])
              /\ \A d \in 1 .. Len(rooms[i].doors) : Interior(rooms[i].doors[d])
        /\ \A p \in {startPoint, exitPoint, coinPosition} : p # NullPoint => Interior(p)

\* an emitted dungeon with a coin whose carving comes next to the border on
\* two sides and that has lava next to the border
C11_Witness ==
    /\ Emitted
    /\ coinPosition # NullPoint
    /\ \E x \in Xs : map[1][x] = TILE_FLOOR
    /\ \E y \in Ys : map[y][1] = TILE_FLOOR
    /\ \E p \in Xs \X Ys : map[p[2]][p[1]] = TILE_LAVA
                            /\ (p[1] \in {1, MAP_WIDTH - 2} \/ p[2] \in {1, MAP_HEIGHT - 2})

----------------------------------------------------------------------------
(* Leaf.split on its own *)

\* the scene's variables while an operation is applied on its own
HarnessIdle ==
    /\ AnalyzerIdle
    /\ map = <<>>
    /\ startPoint = NullPoint
    /\ analysis = <<>>

\* a leaf that has been split already: its children are set
SplitBefore(leaf) == [leaf EXCEPT !.leftChild = 1, !.rightChild = 2]

InitSplit ==
    /\ HarnessIdle
    /\ pc = "input"
    /\ \E x \in 0 .. MaxOrigin, y \in 0 .. MaxOrigin, width \in 1 .. MaxSide, height \in 1 .. MaxSide :
       \E s \in 0 .. MaxDraw, done \in BOOLEAN :
           call = [op |-> "split", s |-> s,
                   leaf |-> IF done THEN SplitBefore(Leaf(x, y, width, height))
                            ELSE Leaf(x, y, width, height)]

\* leaf.split(random), called once
ApplySplit ==
    /\ UNCHANGED otherVars
    /\ pc = "input"
    /\ call.op = "split"
    /\ call' = [op |-> "split", s |-> call.s, leaf |-> call.leaf, result |-> split(call.leaf, call.s)]
    /\ pc' = "applied"
    /\ UNCHANGED <<scene, level, lives, map, startPoint, exitPoint, coinPosition, rooms,
                   attempt, analysis, outcome, seedLog, emitLog, regen, source, stages, centipede, playerVars>>

NextSplit == ApplySplit

SpecSplit == InitSplit /\ [][NextSplit]_vars

SplitApplied == pc = "applied" /\ call.op = "split"

\* the tiles of a leaf's rectangle
LeafTiles(l) == (l.x .. (l.x + l.width - 1)) \X (l.y .. (l.y + l.height - 1))

\* left and right lie side by side along one axis and fill parent exactly,
\* each at least MIN_LEAF_SIZE long on that axis
SplitsAlongWidth(parent, left, right) ==
    /\ left.x = parent.x /\ left.y = parent.y /\ right.y = parent.y
    /\ left.height = parent.height /\ right.height = parent.height
    /\ right.x = left.x + left.width
    /\ left.width + right.width = parent.width
    /\ left.width >= MIN_LEAF_SIZE /\ right.width >= MIN_LEAF_SIZE

SplitsAlongHeight(parent, left, right) ==
    /\ left.x = parent.x /\ left.y = parent.y /\ right.x = parent.x
    /\ left.width = parent.width /\ right.width = parent.width
    /\ right.y = left.y + left.height
    /\ left.height + right.height = parent.height
    /\ left.height >= MIN_LEAF_SIZE /\ right.height >= MIN_LEAF_SIZE

\* C12: split returns false and gives the leaf no children, or returns true
\* with two fresh children that partition the parent's rectangle along one
\* axis, each at least MIN_LEAF_SIZE long on it; a leaf with no side above
\* 2 * MIN_LEAF_SIZE (a 5x5 one among them) and a leaf that already has
\* children are not split.
C12_SplitPartitions ==
    SplitApplied =>
        LET parent == call.leaf
            r == call.result
        IN  /\ r.ok => /\ parent.leftChild = 0 /\ parent.rightChild = 0
                       /\ r.left.leftChild = 0 /\ r.left.rightChild = 0 /\ r.left.room = 0
                       /\ r.right.leftChild = 0 /\ r.right.rightChild = 0 /\ r.right.room = 0
                       /\ \/ SplitsAlongWidth(parent, r.left, r.right)
                          \/ SplitsAlongHeight(parent, r.left, r.right)
                       /\ LeafTiles(r.left) \cup LeafTiles(r.right) = LeafTiles(parent)
                       /\ LeafTiles(r.left) \cap LeafTiles(r.right) = {}
            /\ ~r.ok => DOMAIN r = {"ok", "s"}
            /\ (parent.width = 5 /\ parent.height = 5) => ~r.ok
            /\ (parent.leftChild # 0 \/ parent.rightChild # 0) => ~r.ok

\* a leaf of 13 by 13, the smallest that splits, split along its width into
\* the two narrowest children
C12_Witness ==
    /\ SplitApplied
    /\ call.leaf.width = 13 /\ call.leaf.height = 13
    /\ call.result.ok
    /\ call.result.left.width = 6 /\ call.result.right.width = 7

\* the ratio tests of the claim, in hundredths
WiderThanTall(leaf) == leaf.width > leaf.height /\ 100 * leaf.width >= 125 * leaf.height
TallerThanWide(leaf) == leaf.height > leaf.width /\ 100 * leaf.height >= 125 * leaf.width

\* C27: a successful split divides the width of a leaf that is wider than
\* tall by a ratio of 1.25 or more, the height of a leaf that is taller than
\* wide by that ratio, and otherwise the axis the draw between(0, 1) selects:
\* the height on 0, the width on 1.
C27_SplitAxis ==
    (SplitApplied /\ call.result.ok) =>
        LET parent == call.leaf
            alongWidth == SplitsAlongWidth(parent, call.result.left, call.result.right)
            alongHeight == SplitsAlongHeight(parent, call.result.left, call.result.right)
        IN  /\ alongWidth # alongHeight
            /\ WiderThanTall(parent) => alongWidth
            /\ TallerThanWide(parent) => alongHeight
            /\ (~WiderThanTall(parent) /\ ~TallerThanWide(parent)) =>
                   (alongHeight <=> between(call.s, 0, 1) = 0)

\* C27 witness: a 14x13 leaf, wider than tall but by less than 1.25, whose
\* draw selects the height.
C27_Witness ==
    /\ SplitApplied
    /\ call.leaf.width = 14 /\ call.leaf.height = 13
    /\ call.result.ok
    /\ between(call.s, 0, 1) = 0
    /\ SplitsAlongHeight(call.leaf, call.result.left, call.result.right)

\* the extent of a leaf along the axis split chooses for it under state s
ChosenExtent(leaf, s) ==
    IF splitH(leaf, between(s, 0, 1) = 0) THEN leaf.height ELSE leaf.width

\* C31: split fails only when no position leaves both children at least
\* MIN_LEAF_SIZE long on the chosen axis: applied to a leaf without children
\* whose extent on the chosen axis is at least 2 * MIN_LEAF_SIZE it succeeds.
C31_SplitsFromTwiceMinimum ==
    (/\ SplitApplied
     /\ call.leaf.leftChild = 0 /\ call.leaf.rightChild = 0
     /\ ChosenExtent(call.leaf, call.s) >= 2 * MIN_LEAF_SIZE) => call.result.ok

\* C31 witness: a 12x12 leaf without children, which a cut at 6 would divide
\* into two children of 6, is split and the split fails.
C31_Witness ==
    /\ SplitApplied
    /\ call.leaf.leftChild = 0 /\ call.leaf.rightChild = 0
    /\ call.leaf.width = 2 * MIN_LEAF_SIZE /\ call.leaf.height = 2 * MIN_LEAF_SIZE
    /\ ~call.result.ok

\* split succeeds exactly from an extent of 2 * MIN_LEAF_SIZE + 1
SplitsAboveTwiceMinimum ==
    (/\ SplitApplied
     /\ call.leaf.leftChild = 0 /\ call.leaf.rightChild = 0) =>
        (call.result.ok <=> ChosenExtent(call.leaf, call.s) > 2 * MIN_LEAF_SIZE)

----------------------------------------------------------------------------
(* The tree-building loop of generateDungeon on its own *)

InitTree ==
    /\ HarnessIdle
    /\ pc = "input"
    /\ \E s \in 0 .. MaxTreeDraw : call = [op |-> "tree", s |-> s]

\* rootLeaf = new Leaf(0, 0, MAP_WIDTH, MAP_HEIGHT); leafs.push(rootLeaf);
\* while (didSplit) { ... }
BuildTree ==
    /\ UNCHANGED otherVars
    /\ pc = "input"
    /\ call.op = "tree"
    /\ call' = [op |-> "tree", s |-> call.s,
                leafs |-> SplitLoop(<<Leaf(0, 0, MAP_WIDTH, MAP_HEIGHT)>>, call.s).leafs]
    /\ pc' = "applied"
    /\ UNCHANGED <<scene, level, lives, map, startPoint, exitPoint, coinPosition, rooms,
                   attempt, analysis, outcome, seedLog, emitLog, regen, source, stages, centipede, playerVars>>

NextTree == BuildTree

SpecTree == InitTree /\ [][NextTree]_vars

TreeBuilt == pc = "applied" /\ call.op = "tree"

\* a leaf of the tree that has no children
Terminal(leaf) == leaf.leftChild = 0 /\ leaf.rightChild = 0

\* C13: when the tree-building loop ends, every leaf without children is
\* between MIN_LEAF_SIZE and 20 tiles wide and high.
C13_TerminalLeafSizes ==
    TreeBuilt =>
        \A i \in 1 .. Len(call.leafs) :
            Terminal(call.leafs[i]) =>
                /\ call.leafs[i].width >= MIN_LEAF_SIZE /\ call.leafs[i].width <= 20
                /\ call.leafs[i].height >= MIN_LEAF_SIZE /\ call.leafs[i].height <= 20

\* a finished tree that has a terminal leaf with a side of exactly 20, one
\* with a side of exactly MIN_LEAF_SIZE, and a split leaf with a side above 20
C13_Witness ==
    /\ TreeBuilt
    /\ \E i \in 1 .. Len(call.leafs) :
          Terminal(call.leafs[i]) /\ (call.leafs[i].width = 20 \/ call.leafs[i].height = 20)
    /\ \E i \in 1 .. Len(call.leafs) :
          Terminal(call.leafs[i]) /\ (call.leafs[i].width = MIN_LEAF_SIZE \/ call.leafs[i].height = MIN_LEAF_SIZE)
    /\ \E i \in 2 .. Len(call.leafs) : ~Terminal(call.leafs[i]) /\ tooLarge(call.leafs[i])

----------------------------------------------------------------------------
(* The tree-building loop of generateDungeon, one iteration at a time *)

MaxLoopDraw == 255

\* rootLeaf = new Leaf(0, 0, MAP_WIDTH, MAP_HEIGHT); leafs.push(rootLeaf);
\* didSplit = true, before the first test of the while loop; passes, splits
\* and idle count the for loops run in full, the splits that succeeded and
\* the for loops in which none did
InitLoop ==
    /\ HarnessIdle
    /\ pc = "while"
    /\ \E s \in 0 .. MaxLoopDraw :
          call = [op |-> "loop", leafs |-> <<Leaf(0, 0, MAP_WIDTH, MAP_HEIGHT)>>, i |-> 1,
                  didSplit |-> TRUE, s |-> s, passes |-> 0, splits |-> 0, idle |-> 0]

LoopFrame ==
    UNCHANGED <<scene, level, lives, map, startPoint, exitPoint, coinPosition, rooms, attempt,
                analysis, outcome, seedLog, emitLog, regen, source, stages, centipede, otherVars, playerVars>>

\* while (didSplit) { didSplit = false; i = 0
WhileTest ==
    /\ pc = "while"
    /\ call.op = "loop"
    /\ IF loopAgain(call.didSplit)
       THEN pc' = "for" /\ call' = [call EXCEPT !.didSplit = FALSE, !.i = 1]
       ELSE pc' = "applied" /\ UNCHANGED call
    /\ LoopFrame

\* i < leafs.length: the body of the for loop on leafs[i], or the end of the loop
ForIteration ==
    /\ pc = "for"
    /\ call.op = "loop"
    /\ IF call.i <= Len(call.leafs)
       THEN /\ \E st \in {SplitPassStep([leafs |-> call.leafs, i |-> call.i,
                                         didSplit |-> call.didSplit, s |-> call.s])} :
                  call' = [call EXCEPT !.leafs = st.leafs, !.i = st.i, !.didSplit = st.didSplit,
                                       !.s = st.s,
                                       !.splits = IF Len(st.leafs) > Len(call.leafs)
                                                  THEN @ + 1 ELSE @]
            /\ pc' = "for"
       ELSE /\ call' = [call EXCEPT !.passes = @ + 1,
                                    !.idle = IF call.didSplit THEN @ ELSE @ + 1]
            /\ pc' = "while"
    /\ LoopFrame

NextLoop == WhileTest \/ ForIteration

\* the loop is straight-line code: it takes its next step as long as it has one
SpecLoop == InitLoop /\ [][NextLoop]_vars /\ WF_vars(NextLoop)

LoopRuns == call # <<>> /\ call.op = "loop"

LoopDone == LoopRuns /\ pc = "applied"

\* a 35x35 grid has room for this many splits into leaves of MIN_LEAF_SIZE or more each way
MaxSplits == (MAP_WIDTH \div MIN_LEAF_SIZE) * (MAP_HEIGHT \div MIN_LEAF_SIZE) - 1

\* the successful splits are bounded, every pass but the last one splits, and
\* the loop has exited exactly when one pass without a split has been run
LoopBoundedAndExits ==
    LoopRuns =>
        /\ call.splits <= MaxSplits
        /\ Len(call.leafs) = 2 * call.splits + 1
        /\ call.passes <= call.splits + 1
        /\ call.idle <= 1
        /\ LoopDone => (call.idle = 1 /\ ~call.didSplit)
        /\ (call.idle = 1 /\ pc # "while") => LoopDone

\* C28: the tree-building loop terminates: the number of successful splits
\* is bounded, and the loop exits after the first full pass over the leaves
\* in which no split succeeds, which it reaches in every run.
C28_TreeLoopTerminates == [](LoopBoundedAndExits) /\ <>LoopDone

\* C28 witness: the loop has exited after more than three passes and more
\* than ten splits, its last pass having split nothing.
C28_Witness ==
    /\ LoopDone
    /\ call.passes > 3
    /\ call.splits > 10
    /\ call.idle = 1

----------------------------------------------------------------------------
(* Rooms of a generated dungeon *)

\* the indices in the leafs list of the leaves without children
TerminalLeaves == {i \in 1 .. Len(stages.leafs) : Terminal(stages.leafs[i])}

\* C14: after rootLeaf.createRooms every leaf without children has a room,
\* no leaf with children has one, and the rooms list holds the rooms of the
\* leaves without children of this attempt, each once, and nothing else.
C14_RoomsOfTerminalLeaves ==
    Generated =>
        /\ \A i \in 1 .. Len(stages.leafs) :
              IF Terminal(stages.leafs[i]) THEN stages.leafs[i].room \in 1 .. Len(rooms)
              ELSE stages.leafs[i].room = 0
        /\ \A i, j \in TerminalLeaves : stages.leafs[i].room = stages.leafs[j].room => i = j
        /\ {stages.leafs[i].room : i \in TerminalLeaves} = 1 .. Len(rooms)

\* the second generateDungeon call of a retry loop has built its rooms: the
\* rooms list was not empty when the call began
C14_Witness ==
    /\ Generated
    /\ Len(seedLog) >= 2
    /\ Cardinality(TerminalLeaves) >= 2
    /\ Len(stages.leafs) > Cardinality(TerminalLeaves)

\* the rooms of the leaves without children in the subtree of leaf i
RECURSIVE RoomsUnder(_)
RoomsUnder(i) ==
    LET leaf == stages.leafs[i]
    IN  IF Terminal(leaf) THEN {leaf.room}
        ELSE (IF leaf.leftChild # 0 THEN RoomsUnder(leaf.leftChild) ELSE {})
             \cup (IF leaf.rightChild # 0 THEN RoomsUnder(leaf.rightChild) ELSE {})

\* the rooms joined to the rooms of set by the corridors, n corridors deep
RECURSIVE JoinedTo(_, _)
JoinedTo(set, n) ==
    IF n = 0 THEN set
    ELSE LET more == set \cup {stages.corridors[k].roomB : k \in {j \in 1 .. Len(stages.corridors) :
                                                                stages.corridors[j].roomA \in set}}
                         \cup {stages.corridors[k].roomA : k \in {j \in 1 .. Len(stages.corridors) :
                                                                stages.corridors[j].roomB \in set}}
         IN  IF more = set THEN set ELSE JoinedTo(more, n - 1)

\* C32: createCorridor is called once for every leaf with children and for
\* no other, when every leaf without children under it has its room, with
\* one room of the left subtree and one of the right subtree, neither null;
\* the rooms and the calls form a connected graph with one edge fewer than
\* it has rooms.
C32_CorridorsSpanRooms ==
    Generated =>
        /\ \A i \in 1 .. Len(stages.leafs) :
              Cardinality({k \in 1 .. Len(stages.corridors) : stages.corridors[k].leaf = i})
                  = IF Terminal(stages.leafs[i]) THEN 0 ELSE 1
        /\ \A k \in 1 .. Len(stages.corridors) :
              LET c == stages.corridors[k]
                  leaf == stages.leafs[c.leaf]
              IN  /\ leaf.leftChild # 0 /\ leaf.rightChild # 0
                  /\ c.roomA # 0 /\ c.roomB # 0
                  /\ c.roomA \in RoomsUnder(leaf.leftChild)
                  /\ c.roomB \in RoomsUnder(leaf.rightChild)
                  /\ \A r \in RoomsUnder(c.leaf) : r \in 1 .. c.rooms
        /\ Len(stages.corridors) = Len(rooms) - 1
        /\ JoinedTo({1}, Len(rooms)) = 1 .. Len(rooms)

\* C32 witness: a dungeon of five rooms or more in which a corridor joins
\* two subtrees that hold several rooms each
C32_Witness ==
    /\ Generated
    /\ Len(rooms) >= 5
    /\ \E k \in 1 .. Len(stages.corridors) :
          LET leaf == stages.leafs[stages.corridors[k].leaf]
          IN  /\ Cardinality(RoomsUnder(leaf.leftChild)) >= 2
              /\ Cardinality(RoomsUnder(leaf.rightChild)) >= 2

\* the tiles of a room's rectangle, and those inside its one-tile ring
RoomTiles(r) == (r.x .. (r.x + r.width - 1)) \X (r.y .. (r.y + r.height - 1))
RoomInside(r) == ((r.x + 1) .. (r.x + r.width - 2)) \X ((r.y + 1) .. (r.y + r.height - 2))

FloorOf(m) == {p \in Xs \X Ys : m[p[2]][p[1]] = TILE_FLOOR}

\* C15: the room of every leaf without children is 4 to leaf.width - 2
\* wide and 4 to leaf.height - 2 high and leaves at least one tile of the
\* leaf free on each of its four sides; digging it into an all-Wall grid
\* turns exactly the rectangle without its ring into Floor; the rectangles
\* of two rooms share no tile.
C15_RoomFitsItsLeaf ==
    Generated =>
        /\ \A i \in TerminalLeaves :
              LET leaf == stages.leafs[i]
                  room == rooms[leaf.room]
              IN  /\ room.width >= 4 /\ room.width <= leaf.width - 2
                  /\ room.height >= 4 /\ room.height <= leaf.height - 2
                  /\ room.x >= leaf.x + 1 /\ room.x + room.width <= leaf.x + leaf.width - 1
                  /\ room.y >= leaf.y + 1 /\ room.y + room.height <= leaf.y + leaf.height - 1
                  /\ FloorOf(digRoom(AllWall, room)) = RoomInside(room)
        /\ \A a, b \in 1 .. Len(rooms) : a # b => RoomTiles(rooms[a]) \cap RoomTiles(rooms[b]) = {}

\* a dungeon with a smallest room (4 wide, in a leaf 6 wide), a room as
\* wide as its leaf allows and a room that leaves more than one tile free
C15_Witness ==
    /\ Generated
    /\ \E i \in TerminalLeaves : stages.leafs[i].width = MIN_LEAF_SIZE /\ rooms[stages.leafs[i].room].width = 4
    /\ \E i \in TerminalLeaves : /\ stages.leafs[i].width > MIN_LEAF_SIZE
                                   /\ rooms[stages.leafs[i].room].width = stages.leafs[i].width - 2
    /\ \E i \in TerminalLeaves : rooms[stages.leafs[i].room].x > stages.leafs[i].x + 1

----------------------------------------------------------------------------
(* createCorridor on its own *)

\* where roomB is put: around roomA, which is at <<12, 12>>; the rooms keep
\* two tiles or more apart, as rooms of different leaves do
RoomBOrigins == {<<2, 2>>, <<12, 2>>, <<22, 2>>, <<2, 12>>, <<22, 12>>, <<2, 22>>, <<12, 22>>, <<22, 22>>,
                 <<20, 13>>, <<11, 20>>}

InitCorridor ==
    /\ HarnessIdle
    /\ pc = "input"
    /\ \E w \in 4 .. MaxRoomSide, h \in 4 .. MaxRoomSide :
       \E o \in RoomBOrigins, s \in 0 .. MaxCorridorDraw :
           LET roomA == Room(12, 12, w, h)
               roomB == Room(o[1], o[2], h, w)
           IN  call = [op |-> "createCorridor",
                       g |-> [rooms |-> <<roomA, roomB>>, s |-> s,
                              map |-> digRoom(digRoom(AllWall, roomA), roomB)]]

\* createCorridor(roomA, roomB, map, random), called once
ApplyCorridor ==
    /\ UNCHANGED otherVars
    /\ pc = "input"
    /\ call.op = "createCorridor"
    /\ call' = [op |-> "createCorridor", g |-> call.g, result |-> createCorridor(1, 2, call.g)]
    /\ pc' = "applied"
    /\ UNCHANGED <<scene, level, lives, map, startPoint, exitPoint, coinPosition, rooms,
                   attempt, analysis, outcome, seedLog, emitLog, regen, source, stages, centipede, playerVars>>

NextCorridor == ApplyCorridor

SpecCorridor == InitCorridor /\ [][NextCorridor]_vars

CorridorApplied == pc = "applied" /\ call.op = "createCorridor"

\* the doors createCorridor chose, as it recorded them in the rooms
DoorA == call.result.rooms[1].doors[1]
DoorB == call.result.rooms[2].doors[1]

Between(a, b) == Min2(a, b) .. Max2(a, b)

\* the two L-shaped paths from door a to door b
PathHorizontalFirst(a, b) ==
    {<<x, a[2]>> : x \in Between(a[1], b[1])} \cup {<<b[1], y>> : y \in Between(a[2], b[2])}
PathVerticalFirst(a, b) ==
    {<<a[1], y>> : y \in Between(a[2], b[2])} \cup {<<x, b[2]>> : x \in Between(a[1], b[1])}

\* the tile inside the room next to its door
InsideDoor(room, door) ==
    {p \in RoomInside(room) : (p[1] = door[1] /\ (p[2] - door[2]) \in {-1, 1})
                              \/ (p[2] = door[2] /\ (p[1] - door[1]) \in {-1, 1})}

\* C16 as stated: when createCorridor returns, both doors and every tile of
\* an L-shaped path between them are Floor.
C16_CorridorIsFloor ==
    CorridorApplied =>
        /\ call.result.map[DoorA[2]][DoorA[1]] = TILE_FLOOR
        /\ call.result.map[DoorB[2]][DoorB[1]] = TILE_FLOOR
        /\ \E path \in {PathHorizontalFirst(DoorA, DoorB), PathVerticalFirst(DoorA, DoorB)} :
              \A p \in path : call.result.map[p[2]][p[1]] = TILE_FLOOR

\* C16 amended: when createCorridor returns, both doors are Floor and every
\* tile of an L-shaped path between them is Floor, except that the tile
\* inside either room next to its door is Stone when the path runs over it.
C16_CorridorIsFloorButStones ==
    CorridorApplied =>
        LET stones == InsideDoor(call.g.rooms[1], DoorA) \cup InsideDoor(call.g.rooms[2], DoorB)
        IN  /\ call.result.map[DoorA[2]][DoorA[1]] = TILE_FLOOR
            /\ call.result.map[DoorB[2]][DoorB[1]] = TILE_FLOOR
            /\ \A p \in stones : call.result.map[p[2]][p[1]] = TILE_STONE
            /\ \E path \in {PathHorizontalFirst(DoorA, DoorB), PathVerticalFirst(DoorA, DoorB)} :
                  \A p \in path \ stones : call.result.map[p[2]][p[1]] = TILE_FLOOR

\* a corridor whose path runs through roomA over the tile inside its door,
\* which is Stone on return
C16_Witness ==
    /\ CorridorApplied
    /\ \E p \in InsideDoor(call.g.rooms[1], DoorA) :
          /\ p \in PathHorizontalFirst(DoorA, DoorB) \cap PathVerticalFirst(DoorA, DoorB)
          /\ call.result.map[p[2]][p[1]] = TILE_STONE

\* the tiles that are Stone in a grid
StonesOf(m) == {p \in Xs \X Ys : m[p[2]][p[1]] = TILE_STONE}

\* the four corner tiles of a room's rectangle
Corners(room) == {room.x, room.x + room.width - 1} \X {room.y, room.y + room.height - 1}

\* C29: for every door getDoorPosition returns, the door is no corner of its
\* room and checkAndPlaceStone turns exactly one tile into Stone, the carved
\* tile inside the room that is orthogonally next to the door; a corridor
\* therefore places two Stone tiles, one in each room.
C29_OneStonePerDoor ==
    CorridorApplied =>
        LET roomA == call.g.rooms[1]
            roomB == call.g.rooms[2]
            placed == StonesOf(call.result.map) \ StonesOf(call.g.map)
        IN  /\ DoorA \in RoomTiles(roomA) \ (RoomInside(roomA) \cup Corners(roomA))
            /\ DoorB \in RoomTiles(roomB) \ (RoomInside(roomB) \cup Corners(roomB))
            /\ Cardinality(InsideDoor(roomA, DoorA)) = 1
            /\ Cardinality(InsideDoor(roomB, DoorB)) = 1
            /\ placed = InsideDoor(roomA, DoorA) \cup InsideDoor(roomB, DoorB)
            /\ Cardinality(placed) = 2
            /\ \A p \in placed : call.g.map[p[2]][p[1]] = TILE_FLOOR

\* C29 witness: roomA's door is in its top wall and roomB's in its right
\* wall; the tile below the one and the tile left of the other are the two
\* Stone tiles of the grid.
C29_Witness ==
    /\ CorridorApplied
    /\ DoorA[2] = call.g.rooms[1].y
    /\ DoorB[1] = call.g.rooms[2].x + call.g.rooms[2].width - 1
    /\ StonesOf(call.result.map) = {<<DoorA[1], DoorA[2] + 1>>, <<DoorB[1] - 1, DoorB[2]>>}

----------------------------------------------------------------------------
(* addLava on its own *)

\* carved grids: one tunnel of len tiles from <<5, 5>>, eastwards or
\* southwards, in an all-Wall grid
TunnelGrid(len, horizontal) ==
    IF horizontal THEN carveHorizontalTunnel(5, 5 + len - 1, 5, AllWall)
    ELSE carveVerticalTunnel(5, 5 + len - 1, 5, AllWall)

InitLava ==
    /\ HarnessIdle
    /\ pc = "input"
    /\ \E len \in 10 .. MaxLavaCorridor, horizontal \in BOOLEAN, far \in BOOLEAN, s \in 0 .. MaxLavaDraw :
           call = [op |-> "addLava", s |-> s, map |-> TunnelGrid(len, horizontal),
                   start |-> IF ~far THEN <<5, 5>>
                             ELSE IF horizontal THEN <<5 + len - 1, 5>> ELSE <<5, 5 + len - 1>>]

\* addLava(map, random), called once, with findReachablePositions run from
\* the start on the grid before it and on the grid after it
ApplyLava ==
    /\ UNCHANGED otherVars
    /\ pc = "input"
    /\ call.op = "addLava"
    /\ \E lava \in {addLava(call.map, call.s).map} :
           call' = [op |-> "addLava", s |-> call.s, map |-> call.map, start |-> call.start,
                    lava |-> lava,
                    before |-> findReachablePositions(call.map, call.start[1], call.start[2]),
                    after |-> findReachablePositions(lava, call.start[1], call.start[2])]
    /\ pc' = "applied"
    /\ UNCHANGED <<scene, level, lives, map, startPoint, exitPoint, coinPosition, rooms,
                   attempt, analysis, outcome, seedLog, emitLog, regen, source, stages, centipede, playerVars>>

NextLava == ApplyLava

SpecLava == InitLava /\ [][NextLava]_vars

LavaApplied == pc = "applied" /\ call.op = "addLava"

\* C17: every tile findReachablePositions visits from the start on the
\* carved grid is still visited from the start after addLava.
C17_LavaKeepsReachable ==
    LavaApplied => SeqToSet(call.before.visited) \subseteq SeqToSet(call.after.visited)

\* addLava has turned a Wall tile into Lava and the far end of the tunnel is
\* still visited
C17_Witness ==
    /\ LavaApplied
    /\ call.lava # call.map
    /\ Len(call.before.visited) = 2
    /\ call.after.visited = call.before.visited

\* the tiles 4-adjacent to p
Neighbours4(p) == {<<p[1] - 1, p[2]>>, <<p[1] + 1, p[2]>>, <<p[1], p[2] - 1>>, <<p[1], p[2] + 1>>}

\* the Wall tiles off the border of grid m that have a Floor tile among their 4 neighbours
EligibleWalls(m) ==
    {p \in (1 .. MAP_WIDTH - 2) \X (1 .. MAP_HEIGHT - 2) :
        /\ m[p[2]][p[1]] = TILE_WALL
        /\ \E q \in Neighbours4(p) : m[q[2]][q[1]] = TILE_FLOOR}

\* the tiles in which two grids differ
ChangedTiles(m1, m2) == {p \in Xs \X Ys : m1[p[2]][p[1]] # m2[p[2]][p[1]]}

\* C30: addLava changes exactly floor(0.05 * n) tiles of the grid of every
\* attempt, n being the number of eligible Wall tiles before the call; every
\* changed tile is one of them and becomes Lava, and all other tiles, Floor
\* and Stone among them, are as before.
C30_LavaFrame ==
    Generated =>
        LET changed == ChangedTiles(stages.carved, stages.lava)
            eligible == EligibleWalls(stages.carved)
        IN  /\ IsGrid(stages.lava)
            /\ Cardinality(changed) = (5 * Cardinality(eligible)) \div 100
            /\ changed \subseteq eligible
            /\ \A p \in changed : stages.lava[p[2]][p[1]] = TILE_LAVA
            /\ \A p \in Xs \X Ys :
                  stages.carved[p[2]][p[1]] \in {TILE_FLOOR, TILE_STONE} =>
                      stages.lava[p[2]][p[1]] = stages.carved[p[2]][p[1]]

\* C30 witness: an attempt whose carved grid has Stone tiles and at least 100
\* eligible Wall tiles, five or more of which addLava has turned into Lava.
C30_Witness ==
    /\ Generated
    /\ Cardinality(EligibleWalls(stages.carved)) >= 100
    /\ Cardinality(ChangedTiles(stages.carved, stages.lava)) >= 5
    /\ StonesOf(stages.carved) # {}

----------------------------------------------------------------------------
(* Floor tiles and the visited set *)

\* the tiles from p to q, which share a row or a column
SlideTiles(p, q) == Between(p[1], q[1]) \X Between(p[2], q[2])

\* the tiles of the valid slides that start on a visited tile and land on a
\* visited tile
OnVisitedSlides(m, visited) ==
    UNION {SlideTiles(p, q) : <<p, q>> \in {pq \in visited \X visited : pq[2] \in Landings(m, pq[1])}}

\* C18: in every emitted dungeon every Floor tile is the start, a tile of
\* the visited set that findReachablePositions computes from the start, or
\* a tile of a valid slide from one visited tile to another.
C18_NoFloorCutOff ==
    Emitted => FloorOf(map) \subseteq ({startPoint} \cup VisitedFromStart
                                         \cup OnVisitedSlides(map, VisitedFromStart))

\* an emitted dungeon in which valid slides between visited tiles pass over
\* Floor tiles that are not visited themselves
C18_Witness ==
    /\ Emitted
    /\ (OnVisitedSlides(map, VisitedFromStart) \cap FloorOf(map)) \ VisitedFromStart # {}

----------------------------------------------------------------------------
(* After a failed generation *)

\* generateDungeonWithRetries has used up its attempts and create has run
\* to its end
Exhausted ==
    /\ scene = "BootScene"
    /\ Len(seedLog) = maxAttempts
    /\ \A k \in 1 .. Len(seedLog) : seedLog[k].outcome # "returned"

\* C19: the rooms list after an attempt holds the rooms of that attempt
\* only, and once all attempts have failed the scene holds no grid and no
\* start point, and createCentipede has not scanned the grid of the failed
\* attempt.
C19_FailedAttemptDiscarded ==
    /\ Generated => Len(rooms) = Cardinality(TerminalLeaves)
    /\ Exhausted => /\ map = <<>>
                    /\ startPoint = NullPoint
                    /\ (centipede = <<>> \/ centipede.map # stages.lava)

\* all attempts have failed and createCentipede has collected positions on
\* the grid the last of them left
C19_Witness ==
    /\ Exhausted
    /\ map = stages.lava
    /\ centipede # <<>>
    /\ centipede.map = stages.lava
    /\ Len(centipede.possiblePositions) > 0

----------------------------------------------------------------------------
(* placeGoldCoin on its own *)

\* one room at <<4, 4>> with the start in the top-left tile of its inside
\* and the exit, already marked, in another corner of its inside
InitCoin ==
    /\ HarnessIdle
    /\ pc = "input"
    /\ \E w \in 3 .. MaxCoinRoom, h \in 3 .. MaxCoinRoom, s \in 0 .. MaxCoinDraw :
       \E exit \in {<<4 + w - 2, 4 + h - 2>>, <<5, 4 + h - 2>>, <<4 + w - 2, 5>>} \ {<<5, 5>>} :
           call = [op |-> "placeGoldCoin", s |-> s, start |-> <<5, 5>>, exit |-> exit,
                   map |-> markExit(digRoom(AllWall, Room(4, 4, w, h)), exit)]

\* this.placeGoldCoin(random), called once with this.coinPosition null
ApplyCoin ==
    /\ UNCHANGED otherVars
    /\ pc = "input"
    /\ call.op = "placeGoldCoin"
    /\ call' = [op |-> "placeGoldCoin", s |-> call.s, start |-> call.start, exit |-> call.exit,
                map |-> call.map,
                result |-> placeGoldCoin(call.map, call.start, call.exit, NullPoint, call.s)]
    /\ pc' = "applied"
    /\ UNCHANGED <<scene, level, lives, map, startPoint, exitPoint, coinPosition, rooms,
                   attempt, analysis, outcome, seedLog, emitLog, regen, source, stages, centipede, playerVars>>

NextCoin == ApplyCoin

SpecCoin == InitCoin /\ [][NextCoin]_vars

CoinApplied == pc = "applied" /\ call.op = "placeGoldCoin"

CoinsOf(m) == {p \in Xs \X Ys : m[p[2]][p[1]] = TILE_COIN}

\* the tiles the claim allows a coin on: Floor, not the start, not the exit,
\* visited from the start on the grid with the exit marked
CoinCandidates ==
    {p \in FloorOf(call.map) :
        /\ p # call.start /\ p # call.exit
        /\ p \in SeqToSet(findReachablePositions(call.map, call.start[1], call.start[2]).visited)}

\* C20: the grid placeGoldCoin leaves has at most one coin tile; a coin
\* replaces a Floor tile other than the start and the exit that is visited
\* from the start on the grid with the exit marked, nothing else changes and
\* coinPosition names the tile; without such a tile the grid is unchanged
\* and coinPosition stays null.
C20_CoinOnVisitedFloor ==
    CoinApplied =>
        /\ Cardinality(CoinsOf(call.result.map)) <= 1
        /\ \A p \in CoinsOf(call.result.map) :
              /\ p \in CoinCandidates
              /\ call.result.coinPosition = p
              /\ call.result.map = [call.map EXCEPT ![p[2]][p[1]] = TILE_COIN]
        /\ CoinsOf(call.result.map) = {} => call.result.map = call.map /\ call.result.coinPosition = NullPoint
        /\ CoinCandidates = {} => CoinsOf(call.result.map) = {}

\* a coin placed in a room whose inside has Floor tiles that are not visited
C20_Witness ==
    /\ CoinApplied
    /\ CoinsOf(call.result.map) # {}
    /\ FloorOf(call.map) \ (CoinCandidates \cup {call.start}) # {}

\* a room with Floor tiles and none of them visited: no coin is placed
C20_WitnessOmitted ==
    /\ CoinApplied
    /\ CoinCandidates = {}
    /\ FloorOf(call.map) \ {call.start} # {}
    /\ CoinsOf(call.result.map) = {}

\* The same on the dungeons GameScene emits: at most one coin tile; a coin
\* is where coinPosition says, on a tile that was Floor, other than the
\* start and the exit and visited from the start on the grid with the exit
\* marked, and the rest of that grid is unchanged; without a coin the
\* emitted grid is that grid.
EmittedCoinOnVisitedFloor ==
    Emitted =>
        /\ Cardinality(CoinsOf(map)) <= 1
        /\ \A p \in CoinsOf(map) :
              /\ stages.coinDrawn
              /\ coinPosition = p /\ p # startPoint /\ p # exitPoint
              /\ stages.marked[p[2]][p[1]] = TILE_FLOOR
              /\ p \in SeqToSet(findReachablePositions(stages.marked, startPoint[1], startPoint[2]).visited)
              /\ map = [stages.marked EXCEPT ![p[2]][p[1]] = TILE_COIN]
        /\ CoinsOf(map) = {} => map = stages.marked /\ coinPosition = NullPoint

\* C36: the coin of a dungeon gives at most one life: once the player has
\* entered the coin tile the tile is Floor, and through all the deaths and
\* restarts on that dungeon no coin is on the grid again and no second coin
\* is collected; the lives never exceed the 3 of the start by more than
\* one for each dungeon played.
C36_CoinOnce ==
    pc = "play" =>
        /\ coinsCollected <= 1
        /\ coinsCollected + Cardinality(CoinsOf(map)) <= 1
        /\ coinsCollected = 1 => (coinPosition # NullPoint /\ TileAt(coinPosition) = TILE_FLOOR)
        /\ lives <= 3 + (level - 1) + coinsCollected

\* C36 witness: the coin has been collected and the player has died since
\* and stands on the start tile again, with the 3 lives of the start
C36_Witness ==
    /\ pc = "play"
    /\ coinsCollected = 1
    /\ level = 1 /\ lives = 3
    /\ player = startPoint
    /\ TileAt(coinPosition) = TILE_FLOOR

----------------------------------------------------------------------------
(* Word Snake (src/game.js, the first GameScene, lines 1-784).  A string is  *)
(* the sequence of its characters.  The geometry of the field is left to    *)
(* the inputs of an update: whether the head is outside the room, which     *)
(* body segment it touches and which letters it touches.                    *)

WORD_LIST == <<
    [newLang |-> <<"l", "e", "t", "'", "s", " ", "g", "o">>, difficulty |-> 1],
    [newLang |-> <<"W", "h", "a", "t", " ", "t", "i", "m", "e", " ", "i", "s", " ", "i", "t", "?">>, difficulty |-> 1],
    [newLang |-> <<"b", "i", "k", "e", " ", "r", "i", "d", "e">>, difficulty |-> 1],
    [newLang |-> <<"t", "y", "r", "e">>, difficulty |-> 1],
    [newLang |-> <<"f", "l", "a", "t", " ", "t", "y", "r", "e">>, difficulty |-> 1],
    [newLang |-> <<"c", "r", "a", "z", "y">>, difficulty |-> 1],
    [newLang |-> <<"m", "o", "n", "e", "y">>, difficulty |-> 1],
    [newLang |-> <<"b", "a", "d", " ", "a", "r", "m">>, difficulty |-> 1],
    [newLang |-> <<"g", "o", "o", "d", " ", "i", "d", "e", "a">>, difficulty |-> 1],
    [newLang |-> <<"p", "i", "c", "k", " ", "s", "o", "m", "e", "o", "n", "e", " ", "u", "p">>, difficulty |-> 1] >>

possibleLetters ==
    <<"a", "b", "c", "d", "e", "f", "g", "h", "i", "j", "k", "l", "m",
      "n", "o", "p", "q", "r", "s", "t", "u", "v", "w", "x", "y", "z">>

\* the snake a game starts with (the default of the Snake constructor)
SnakeLength == 3

\* the leaderboard keeps this many entries
LeaderboardSize == 5

\* bounds of the Word Snake runs
MaxWordLen == 4
MaxExtraLetter == 2
MaxHits == 2
MaxSegments == 4
MaxWordsSpelled == 2
MaxGames == 1

\* the words random.pick can return for a level
finalList(lv) ==
    LET validWords == SelectSeq(WORD_LIST, LAMBDA w : w.difficulty <= lv)
    IN  IF Len(validWords) > 0 THEN validWords ELSE WORD_LIST

getNumberOfExtraLetters(lv) == Min2(2 + lv, 15)

\* what the random sources give one loadNewWord: the word and the extra letters
Draws(lv) ==
    [word : {w \in SeqToSet(finalList(lv)) : Len(w.newLang) <= MaxWordLen},
     extras : [1 .. getNumberOfExtraLetters(lv) ->
                  {possibleLetters[Len(possibleLetters) - i] : i \in 1 .. MaxExtraLetter}]]

\* the fields of the scene an update works on, with the update's own record:
\* the scene it has started, whether it threw, and how often it has called
\* loadNewWord and gameOver
Scene == [currentWord |-> currentWord, spelledLetters |-> spelledLetters, level |-> wordLevel,
          segments |-> segments, lettersOnField |-> lettersOnField,
          currentLength |-> currentLength, bestThisGame |-> bestThisGame,
          leaderboard |-> leaderboard, next |-> wordScene, threw |-> FALSE,
          processed |-> <<>>, wordsSpelled |-> wordsSpelled, loads |-> 0, gameOvers |-> 0]

RECURSIVE insertDescending(_, _)
insertDescending(sorted, v) ==
    IF sorted = <<>> THEN <<v>>
    ELSE IF v > Head(sorted) THEN <<v>> \o sorted
    ELSE <<Head(sorted)>> \o insertDescending(Tail(sorted), v)

RECURSIVE sortDescending(_)
sortDescending(list) ==
    IF list = <<>> THEN <<>>
    ELSE insertDescending(sortDescending(Tail(list)), Head(list))

gameOver(g) ==
    LET sorted == sortDescending(Append(g.leaderboard, g.bestThisGame))
    IN  [g EXCEPT !.leaderboard = SubSeq(sorted, 1, Min2(Len(sorted), LeaderboardSize)),
                  !.next = "BootScene", !.gameOvers = g.gameOvers + 1]

updateScoreDisplay(g) ==
    [g EXCEPT !.currentLength = g.segments,
              !.bestThisGame = IF g.segments > g.bestThisGame THEN g.segments ELSE g.bestThisGame]

spawnLetter(g, letter) == [g EXCEPT !.lettersOnField = Append(g.lettersOnField, letter)]

placeLetters(g, extras) == [g EXCEPT !.lettersOnField = g.currentWord.newLang \o extras]

loadNewWord(g, draw) ==
    placeLetters([g EXCEPT !.currentWord = draw.word, !.spelledLetters = <<>>,
                           !.loads = g.loads + 1], draw.extras)

shrinkTwice(n) == IF n > 1 THEN n - 2 ELSE 0

\* Snake.shrink, on the number of segments
shrink(n) == IF n > 0 THEN n - 1 ELSE n

correctPickInWord(letter, wordNeeded, nextNeededIndex) == letter \in SeqToSet(wordNeeded)

\* the test of processLetter for a correct pick (nextNeededIndex is 0-based)
correctPick(letter, wordNeeded, nextNeededIndex) == letter = wordNeeded[nextNeededIndex + 1]

respawnedNever(letter, wordNeeded) == FALSE

\* the test of processLetter for spawning a wrongly picked letter again
respawned(letter, wordNeeded) == letter \in SeqToSet(wordNeeded)

\* the body of processLetter; a snake without segments has no tail for grow to read
processLetterBody(g, letter, draw) ==
    LET nextNeededIndex == Len(g.spelledLetters)
        wordNeeded == g.currentWord.newLang
    IN  IF nextNeededIndex < Len(wordNeeded)
        THEN IF correctPick(letter, wordNeeded, nextNeededIndex)
             THEN IF g.segments = 0 THEN [g EXCEPT !.threw = TRUE]
                  ELSE LET grown == updateScoreDisplay([g EXCEPT !.segments = g.segments + 1])
                           spelled == [grown EXCEPT !.spelledLetters = Append(g.spelledLetters, letter)]
                       IN  IF Len(spelled.spelledLetters) >= Len(wordNeeded)
                           THEN loadNewWord([spelled EXCEPT !.wordsSpelled =
                                                 Min2(g.wordsSpelled + 1, MaxWordsSpelled)], draw)
                           ELSE spelled
             ELSE LET shrunk == updateScoreDisplay([g EXCEPT !.segments = shrink(g.segments)])
                  IN  IF shrunk.segments = 0 THEN gameOver(shrunk)
                      ELSE IF respawned(letter, wordNeeded) THEN spawnLetter(shrunk, letter)
                      ELSE shrunk
        ELSE g

\* processLetter, with the call written to the log of the update
processLetter(g, letter, draw) ==
    LET after == processLetterBody(g, letter, draw)
    IN  [after EXCEPT !.processed = Append(g.processed,
            [letter |-> letter, word |-> g.currentWord.newLang,
             spelledBefore |-> g.spelledLetters, spelledAfter |-> after.spelledLetters,
             segmentsBefore |-> g.segments, segmentsAfter |-> after.segments,
             loaded |-> after.loads # g.loads, gameOver |-> after.gameOvers # g.gameOvers,
             threw |-> after.threw])]

\* one round of the loop of handleLetterCollisions whose letter touches the
\* head (i is 0-based); reading an index past the end of the array throws, in
\* this round or in the next one
collide(g, i, draw) ==
    IF g.threw THEN g
    ELSE IF i >= Len(g.lettersOnField) THEN [g EXCEPT !.threw = TRUE]
    ELSE LET spliced == [g EXCEPT !.lettersOnField =
                             SubSeq(g.lettersOnField, 1, i) \o
                             SubSeq(g.lettersOnField, i + 2, Len(g.lettersOnField))]
             after == processLetter(spliced, g.lettersOnField[i + 1], draw)
         IN  IF i >= 1 /\ i - 1 >= Len(after.lettersOnField)
             THEN [after EXCEPT !.threw = TRUE] ELSE after

\* handleLetterCollisions; hits are the indexes whose letter touches the
\* head, and the loop runs from the highest index down
RECURSIVE handleLetterCollisions(_, _, _)
handleLetterCollisions(g, hits, draw) ==
    IF hits = {} THEN g
    ELSE LET i == CHOOSE h \in hits : \A k \in hits : k <= h
         IN  handleLetterCollisions(collide(g, i, draw), hits \ {i}, draw)

\* handleSelfCollision; cut is the first segment index from 2 on that touches
\* the head, 0 when there is none
handleSelfCollision(g, cut) ==
    IF cut = 0 THEN g
    ELSE LET cutTail == [g EXCEPT !.segments = Min2(g.segments, cut)]
         IN  IF cutTail.segments = 0 THEN gameOver(cutTail) ELSE cutTail

handleRoomBounds(g, outside) == IF outside THEN gameOver(g) ELSE g

\* the sets of at most MaxHits indexes of a field of n letters
HitsOf(n) == {h \in SUBSET (0 .. n - 1) : Cardinality(h) <= MaxHits}

\* no word is loaded by an update that collects too few letters to finish the word
NoDraw == [word |-> <<>>, extras |-> <<>>]

DrawsFor(hits) ==
    IF Len(spelledLetters) + Cardinality(hits) >= Len(currentWord.newLang)
    THEN Draws(wordLevel) ELSE {NoDraw}

\* the scene's fields as an update leaves them
Leave(g) ==
    /\ wordScene' = g.next
    /\ currentWord' = g.currentWord
    /\ spelledLetters' = g.spelledLetters
    /\ segments' = g.segments
    /\ lettersOnField' = g.lettersOnField
    /\ currentLength' = g.currentLength
    /\ bestThisGame' = g.bestThisGame
    /\ leaderboard' = g.leaderboard
    /\ processed' = g.processed
    /\ wordsSpelled' = g.wordsSpelled
    /\ finishedGames' = IF wordScene = "GameScene" /\ g.next = "BootScene"
                        THEN insertDescending(finishedGames, g.bestThisGame)
                        ELSE finishedGames
    /\ UNCHANGED wordLevel

amazegameVars ==
    <<scene, pc, level, lives, map, startPoint, exitPoint, coinPosition, rooms, attempt,
      analysis, outcome, seedLog, emitLog, regen, source, stages, centipede, call, player, coinsCollected>>

WordFrame == UNCHANGED <<amazegameVars, workerVars>>

InitWord ==
    /\ HarnessIdle
    /\ pc = "word"
    /\ call = <<>>

\* BootScene starts GameScene: GameScene.create
CreateWordGame ==
    /\ wordScene = "BootScene"
    /\ Len(leaderboard) < MaxGames
    /\ \E draw \in Draws(wordLevel) :
           Leave(loadNewWord([Scene EXCEPT !.segments = SnakeLength,
                                           !.currentLength = SnakeLength,
                                           !.bestThisGame = SnakeLength,
                                           !.lettersOnField = <<>>,
                                           !.wordsSpelled = 0,
                                           !.next = "GameScene"], draw))
    /\ WordFrame

\* GameScene.update with the restart key just pressed
UpdateRestart ==
    /\ wordScene = "GameScene"
    /\ Leave(gameOver(Scene))
    /\ WordFrame

\* GameScene.update of a running, unpaused game
Update ==
    /\ wordScene = "GameScene"
    /\ \E outside \in BOOLEAN, cut \in {0} \cup 2 .. segments - 1,
          hits \in HitsOf(Len(lettersOnField)) :
          /\ segments + Cardinality(hits) <= MaxSegments
          /\ \E draw \in DrawsFor(hits) :
             \E bounded \in {handleRoomBounds(Scene, outside)} :
             \E cutTail \in {handleSelfCollision(bounded, cut)} :
                 Leave(handleLetterCollisions(cutTail, hits, draw))
    /\ WordFrame

NextWord == CreateWordGame \/ UpdateRestart \/ Update

SpecWord == InitWord /\ [][NextWord]_vars

IsPrefix(p, w) == Len(p) <= Len(w) /\ SubSeq(w, 1, Len(p)) = p

\* the processLetter calls of the last update
Processed == {processed[k] : k \in 1 .. Len(processed)}

\* the call appended its letter to spelledLetters
Appended(e) == e.spelledAfter # e.spelledBefore \/ e.loaded

\* C21: spelledLetters is at every moment a prefix of currentWord.newLang, and
\* a proper one: processLetter appends the collected letter only if it is the
\* next needed character, the snake then grows by exactly one segment, and
\* when the append completes the word a new word is loaded and spelledLetters
\* is empty again.
C21_SpelledIsPrefix ==
    /\ currentWord # <<>> =>
           /\ IsPrefix(spelledLetters, currentWord.newLang)
           /\ Len(spelledLetters) < Len(currentWord.newLang)
    /\ \A e \in Processed :
           /\ IsPrefix(e.spelledBefore, e.word)
           /\ Len(e.spelledBefore) < Len(e.word)
           /\ Appended(e) =>
                  /\ e.letter = e.word[Len(e.spelledBefore) + 1]
                  /\ e.segmentsAfter = e.segmentsBefore + 1
           /\ ~Appended(e) => e.spelledAfter = e.spelledBefore
           /\ e.loaded <=> (Appended(e) /\ Len(e.spelledBefore) + 1 = Len(e.word))
           /\ IF e.loaded THEN e.spelledAfter = <<>>
              ELSE Appended(e) => e.spelledAfter = Append(e.spelledBefore, e.letter)

\* C21 witness: an update in which one letter was refused and the next one
\* completed the word, so that a new word lies on the field with nothing spelled.
C21_Witness ==
    /\ wordScene = "GameScene"
    /\ spelledLetters = <<>>
    /\ wordsSpelled = 1
    /\ Len(processed) = 2
    /\ ~Appended(processed[1])
    /\ processed[2].loaded
    /\ processed[2].segmentsAfter = processed[2].segmentsBefore + 1
    /\ Len(processed[2].spelledBefore) = 3

\* the call collected a letter that is not the next needed character
WrongPick(e) == e.letter # e.word[Len(e.spelledBefore) + 1]

C23_LevelIncreases == wordsSpelled >= MaxWordsSpelled => wordLevel > 1

\* C23 witness: a running game in which MaxWordsSpelled words have been
\* spelled and the last one was completed by the last update.
C23_Witness ==
    /\ wordScene = "GameScene"
    /\ wordsSpelled = MaxWordsSpelled
    /\ \E e \in Processed : e.loaded
    /\ wordLevel = 1

\* the level of Word Snake keeps its initial value in every state
WordLevelConstant == wordLevel = 1

\* how often the character c occurs in a string or on the field
Count(c, letters) == Cardinality({k \in 1 .. Len(letters) : letters[k] = c})

\* the characters of the current word that are not spelled yet
StillNeeded == SubSeq(currentWord.newLang, Len(spelledLetters) + 1, Len(currentWord.newLang))

----------------------------------------------------------------------------
(* The leaderboard over several games of Word Snake.  The extra letters of   *)
(* a field are all the same letter and the head touches only the first       *)
(* entries of lettersOnField, so that the runs differ in how the games are   *)
(* played and ended.                                                         *)

MaxBoardGames == 6

\* the head touches only letters at the indexes up to this one
MaxBoardIndex == 1

BoardDraws ==
    {d \in Draws(wordLevel) : \A k \in 1 .. Len(d.extras) : d.extras[k] = d.extras[1]}

InitBoard ==
    /\ HarnessIdle
    /\ pc = "board"
    /\ call = <<>>

\* BootScene starts GameScene: GameScene.create
CreateBoardGame ==
    /\ wordScene = "BootScene"
    /\ Len(finishedGames) < MaxBoardGames
    /\ \E draw \in BoardDraws :
           Leave(loadNewWord([Scene EXCEPT !.segments = SnakeLength,
                                           !.currentLength = SnakeLength,
                                           !.bestThisGame = SnakeLength,
                                           !.lettersOnField = <<>>,
                                           !.wordsSpelled = 0,
                                           !.next = "GameScene"], draw))
    /\ WordFrame

\* GameScene.update of a running, unpaused game
UpdateBoard ==
    /\ wordScene = "GameScene"
    /\ \E outside \in BOOLEAN, cut \in {0} \cup 2 .. segments - 1,
          hits \in {h \in HitsOf(Len(lettersOnField)) : h \subseteq 0 .. MaxBoardIndex} :
          /\ segments + Cardinality(hits) <= MaxSegments
          /\ \E draw \in BoardDraws :
             \E bounded \in {handleRoomBounds(Scene, outside)} :
             \E cutTail \in {handleSelfCollision(bounded, cut)} :
                 Leave(handleLetterCollisions(cutTail, hits, draw))
    /\ WordFrame

NextBoard == CreateBoardGame \/ UpdateRestart \/ UpdateBoard

SpecBoard == InitBoard /\ [][NextBoard]_vars

\* C38: after any sequence of games the stored leaderboard is sorted in
\* descending order, has at most 5 entries and consists of the 5 largest
\* bestThisGame values of the games finished so far, each game counted once
\* with the greatest length its snake had.
C38_LeaderboardIsTopFive ==
    /\ Len(leaderboard) <= LeaderboardSize
    /\ \A k \in 1 .. Len(leaderboard) - 1 : leaderboard[k] >= leaderboard[k + 1]
    /\ leaderboard = SubSeq(finishedGames, 1, Min2(Len(finishedGames), LeaderboardSize))

\* C38 witness: one game has ended and the leaderboard holds two entries
C38_Witness ==
    /\ wordScene = "BootScene"
    /\ Len(finishedGames) = 1
    /\ Len(leaderboard) = 2

\* the leaderboard is sorted and has at most 5 entries
LeaderboardSorted ==
    /\ Len(leaderboard) <= LeaderboardSize
    /\ \A k \in 1 .. Len(leaderboard) - 1 : leaderboard[k] >= leaderboard[k + 1]

----------------------------------------------------------------------------
(* Word Snake on tiles (src/game.js, the second GameScene, lines 786-1412).  *)
(* An entry of lettersOnField is its letter and its correct flag.  The       *)
(* inputs of an update are the restart key, whether the head has left the    *)
(* tiles, the body segment it touches and, for each index of the loop of     *)
(* checkLetterCollisions, whether the letter then at that index touches it.  *)

WORD_LIST_TILES ==
    << [newLang |-> <<"H", "o", "l", "a">>, difficulty |-> 1],
       [newLang |-> <<"G", "a", "t", "o">>, difficulty |-> 1],
       [newLang |-> <<"P", "e", "r", "r", "o">>, difficulty |-> 2],
       [newLang |-> <<"A", "d", "i", "ó", "s">>, difficulty |-> 2],
       [newLang |-> <<"G", "r", "a", "c", "i", "a", "s">>, difficulty |-> 2],
       [newLang |-> <<"M", "a", "d", "r", "e">>, difficulty |-> 3],
       [newLang |-> <<"P", "a", "d", "r", "e">>, difficulty |-> 3],
       [newLang |-> <<"N", "o", "c", "h", "e">>, difficulty |-> 3],
       [newLang |-> <<"D", "í", "a">>, difficulty |-> 1],
       [newLang |-> <<"C", "o", "m", "i", "d", "a">>, difficulty |-> 2] >>

\* the first letters of placeLetters' string of possible letters
possibleTiles == <<"A", "B", "C", "D", "E", "F", "G", "H">>

MaxTileLetters == 1    \* how many of the possible letters the wrong letters are drawn from

\* getRandomWordForLevel: the list random.pick chooses from
finalListTiles(lv) ==
    LET valid == SelectSeq(WORD_LIST_TILES, LAMBDA w : w.difficulty <= lv)
    IN  IF Len(valid) > 0 THEN valid ELSE WORD_LIST_TILES

\* getNumberOfExtraLetters of the second variant
getNumberOfExtraLettersTiles(lv) == Min2(6 + lv, 15)

\* the random draws of one placeLetters call: for each wrong letter, which
\* of the possible letters other than the needed one it is
ExtrasTiles == [1 .. getNumberOfExtraLettersTiles(wordLevel) -> 1 .. MaxTileLetters]

\* the scene's fields, with whether gameOver has been called and whether
\* the update has thrown
SceneTiles ==
    [currentWord |-> currentWord, spelledLetters |-> spelledLetters, segments |-> segments,
     lettersOnField |-> lettersOnField, over |-> FALSE, threw |-> FALSE]

\* this.lettersOnField.splice(i, 1), i counted from 1
spliceNone(letters, i) == letters
splice(letters, i) ==
    IF i > Len(letters) THEN letters
    ELSE SubSeq(letters, 1, i - 1) \o SubSeq(letters, i + 1, Len(letters))

\* placeLetters: a new array with the needed letter, flagged correct, and
\* then the wrong letters
placeLettersTiles(g, extras) ==
    LET neededLetter == g.currentWord.newLang[Len(g.spelledLetters) + 1]
        others == SelectSeq(possibleTiles, LAMBDA c : c # neededLetter)
    IN  [g EXCEPT !.lettersOnField =
            << [letter |-> neededLetter, correct |-> TRUE] >>
            \o [k \in 1 .. Len(extras) |-> [letter |-> others[extras[k]], correct |-> FALSE]]]

loadNewWordTiles(g, word, extras) ==
    placeLettersTiles([g EXCEPT !.currentWord = word, !.spelledLetters = <<>>, !.lettersOnField = <<>>],
                      extras)

\* handleLetter(letterObj); snake.grow() throws on a snake without segments
handleLetter(g, letterObj, word, extras) ==
    IF letterObj.correct
    THEN IF g.segments = 0 THEN [g EXCEPT !.threw = TRUE]
         ELSE LET grown == [g EXCEPT !.segments = @ + 1,
                                     !.spelledLetters = Append(@, letterObj.letter)]
              IN  IF Len(grown.spelledLetters) >= Len(grown.currentWord.newLang)
                  THEN loadNewWordTiles(grown, word, extras)
                  ELSE placeLettersTiles(grown, extras)
    ELSE LET shrunk == [g EXCEPT !.segments = shrink(@)]
         IN  IF shrunk.segments = 0 THEN [shrunk EXCEPT !.over = TRUE]
             ELSE placeLettersTiles(shrunk, extras)

\* The loop of checkLetterCollisions from index i down, i counted from 1:
\* handleLetter, then the splice on what lettersOnField then is
RECURSIVE checkLetterCollisions(_, _, _, _, _)
checkLetterCollisions(g, i, hits, word, extras) ==
    IF i < 1 \/ g.threw THEN g
    ELSE IF i \in hits /\ i <= Len(g.lettersOnField)
    THEN LET handled == handleLetter(g, g.lettersOnField[i], word, extras)
         IN  IF handled.threw THEN handled
             ELSE checkLetterCollisions([handled EXCEPT !.lettersOnField = splice(@, i)],
                                        i - 1, hits, word, extras)
    ELSE checkLetterCollisions(g, i - 1, hits, word, extras)

\* the scene's fields after create or update; scene.start('BootScene') takes
\* effect after the update
LeaveTiles(g) ==
    /\ wordScene' = IF g.over THEN "BootScene" ELSE "GameScene"
    /\ currentWord' = g.currentWord
    /\ spelledLetters' = g.spelledLetters
    /\ segments' = g.segments
    /\ lettersOnField' = g.lettersOnField
    /\ UNCHANGED <<wordLevel, currentLength, bestThisGame, leaderboard, processed, wordsSpelled,
                   finishedGames>>

InitTiles ==
    /\ HarnessIdle
    /\ pc = "tiles"
    /\ call = <<>>

\* BootScene starts GameScene with { level: 1 }: GameScene.create
CreateTiles ==
    /\ wordScene = "BootScene"
    /\ \E k \in 1 .. Len(finalListTiles(wordLevel)) :
       \E word \in {finalListTiles(wordLevel)[k]} :
       \E extras \in ExtrasTiles :
           /\ Len(word.newLang) <= MaxWordLen
           /\ LeaveTiles(loadNewWordTiles([SceneTiles EXCEPT !.segments = SnakeLength], word, extras))
    /\ WordFrame

\* GameScene.update: the restart key, or checkWallCollision,
\* checkSelfCollision and checkLetterCollisions
UpdateTiles ==
    /\ wordScene = "GameScene"
    /\ \E restart \in BOOLEAN, outside \in BOOLEAN, cut \in 0 .. segments - 1,
          hits \in {h \in SUBSET (1 .. Len(lettersOnField)) : Cardinality(h) <= MaxHits} :
       \E k \in 1 .. Len(finalListTiles(wordLevel)) :
       \E word \in {finalListTiles(wordLevel)[k]} :
       \E extras \in ExtrasTiles :
           /\ Len(word.newLang) <= MaxWordLen
           /\ segments + Cardinality(hits) <= MaxSegments
           /\ IF restart THEN LeaveTiles([SceneTiles EXCEPT !.over = TRUE])
              ELSE LeaveTiles(checkLetterCollisions(
                       [SceneTiles EXCEPT !.over = outside,
                                          !.segments = IF cut > 0 THEN cut ELSE @],
                       Len(lettersOnField), hits, word, extras))
    /\ WordFrame

NextTiles == CreateTiles \/ UpdateTiles

SpecTiles == InitTiles /\ [][NextTiles]_vars

\* C37: while the game of the tile variant is not over lettersOnField has
\* exactly one entry flagged correct and its letter is the next needed
\* letter of the current word, also right after the head has collected
\* the correct letter in the middle of a word.
C37_OneCorrectLetter ==
    wordScene = "GameScene" =>
        LET flagged == {k \in 1 .. Len(lettersOnField) : lettersOnField[k].correct}
        IN  /\ Cardinality(flagged) = 1
            /\ \A k \in flagged :
                  lettersOnField[k].letter = currentWord.newLang[Len(spelledLetters) + 1]

\* C37 witness: the head has collected the first letter of the word, the
\* game goes on and no letter of the field is flagged correct
C37_Witness ==
    /\ wordScene = "GameScene"
    /\ Len(spelledLetters) = 1
    /\ segments = SnakeLength + 1
    /\ Len(lettersOnField) = getNumberOfExtraLettersTiles(wordLevel)
    /\ \A k \in 1 .. Len(lettersOnField) : ~lettersOnField[k].correct

----------------------------------------------------------------------------
(* The service worker (src/sw.js).  A cache name is the pair of its text     *)
(* before the version and the version; a cache maps each URL to the version *)
(* of the asset it holds, 0 when it holds none.                             *)

urlsToCache ==
    {"./", "./index.html", "./manifest.json", "./sw.js", "./game.js", "./background.png",
     "./offline.html", "https://cdn.jsdelivr.net/npm/phaser@3.55.2/dist/phaser.min.js"}

\* the URLs of the fetch events of a run: two cached assets and one that
\* install does not cache
Requests == {"./game.js", "./offline.html", "./icon.png"}

Urls == urlsToCache \cup Requests

\* bounds of the service worker runs
MaxVersion == 2
MaxAssetVersion == 2

CACHE_NAME(version) == <<"labyrinth-cache-v", version>>

\* the cache names of a run: the worker's caches of every version and a
\* cache of another name
CacheNames == {CACHE_NAME(v) : v \in 1 .. MaxVersion} \cup {<<"other-cache", 0>>}

NoEntries == [u \in Urls |-> 0]

\* the caches found when the worker starts, in the order of CacheNames'
\* versions: each holds the first version of the listed assets
RECURSIVE CachesOf(_)
CachesOf(names) ==
    IF names = {} THEN <<>>
    ELSE LET n == CHOOSE c \in names : \A d \in names : c[2] <= d[2]
         IN  <<[name |-> n, entries |-> [u \in Urls |-> IF u \in urlsToCache THEN 1 ELSE 0]]>>
             \o CachesOf(names \ {n})

cacheNamesOf(storage) == [k \in 1 .. Len(storage) |-> storage[k].name]

\* caches.open(name): the cache is created at the end when it does not exist
open(storage, name) ==
    IF \E k \in 1 .. Len(storage) : storage[k].name = name THEN storage
    ELSE Append(storage, [name |-> name, entries |-> NoEntries])

\* cache.addAll(urls) on the cache of the given name, with every fetch succeeding
addAll(storage, name, urls, assets) ==
    [k \in 1 .. Len(storage) |->
        IF storage[k].name = name
        THEN [storage[k] EXCEPT !.entries = [u \in Urls |-> IF u \in urls THEN assets[u] ELSE @[u]]]
        ELSE storage[k]]

\* caches.match(url): the entry of the first cache, in creation order, that has one
match(storage, url) ==
    IF \E k \in 1 .. Len(storage) : storage[k].entries[url] # 0
    THEN storage[CHOOSE k \in 1 .. Len(storage) :
                     /\ storage[k].entries[url] # 0
                     /\ \A j \in 1 .. k - 1 : storage[j].entries[url] = 0].entries[url]
    ELSE 0

isOldVersion(cacheName, current) == cacheName[1] = current[1] /\ cacheName # current

\* the test of the activate handler for deleting a cache
isOld(cacheName, current) == cacheName # current

\* the activate handler's Promise.all over the names caches.keys() gave
deleteOld(storage, names, current) ==
    SelectSeq(storage, LAMBDA c : ~(c.name \in SeqToSet(names) /\ isOld(c.name, current)))

\* the response of the fetch handler: where it comes from and the version of
\* the asset it carries (0: no response)
respondWith(storage, request, assets, reachable) ==
    LET cachedResponse == match(storage, request.url)
    IN  IF cachedResponse # 0 THEN [from |-> "cache", version |-> cachedResponse]
        ELSE IF reachable THEN [from |-> "network", version |-> assets[request.url]]
        ELSE IF request.html THEN [from |-> "offline", version |-> match(storage, "./offline.html")]
        ELSE [from |-> "none", version |-> 0]

WorkerFrame == UNCHANGED <<amazegameVars, wordVars>>

InitWorker ==
    /\ AmazegameIdle /\ WordIdle
    /\ map = <<>> /\ startPoint = NullPoint /\ analysis = <<>> /\ call = <<>>
    /\ pc = "worker"
    /\ worker = "evaluated"
    /\ appVersion = 0
    /\ \E names \in SUBSET CacheNames : cacheStorage = CachesOf(names)
    /\ server = [u \in Urls |-> 1]
    /\ online \in BOOLEAN
    /\ keys = <<>>
    /\ served = <<>>
    /\ missed = {}

\* the manifest arrives: the worker reads its version and registers its handlers
ManifestLoaded ==
    /\ worker = "evaluated"
    /\ online
    /\ \E version \in 1 .. MaxVersion : appVersion' = version
    /\ worker' = "registered"
    /\ UNCHANGED <<cacheStorage, server, online, keys, served, missed>>
    /\ WorkerFrame

\* the manifest cannot be fetched: the catch logs the error, nothing is registered
ManifestFailed ==
    /\ worker = "evaluated"
    /\ ~online
    /\ worker' = "failed"
    /\ UNCHANGED <<appVersion, cacheStorage, server, online, keys, served, missed>>
    /\ WorkerFrame

\* the install handler: the versioned cache is opened and filled; the
\* installation fails when an asset cannot be fetched
Install ==
    /\ worker = "registered"
    /\ "install" \notin missed
    /\ IF online
       THEN /\ cacheStorage' = addAll(open(cacheStorage, CACHE_NAME(appVersion)),
                                      CACHE_NAME(appVersion), urlsToCache, server)
            /\ worker' = "installed"
       ELSE /\ cacheStorage' = open(cacheStorage, CACHE_NAME(appVersion))
            /\ worker' = "redundant"
    /\ UNCHANGED <<appVersion, server, online, keys, served, missed>>
    /\ WorkerFrame

\* the activate handler, first part: caches.keys() resolves
ActivateKeys ==
    /\ worker = "installed"
    /\ keys' = cacheNamesOf(cacheStorage)
    /\ worker' = "activating"
    /\ UNCHANGED <<appVersion, cacheStorage, server, online, served, missed>>
    /\ WorkerFrame

\* the activate handler, second part: the deletions resolve and the handler completes
ActivateDelete ==
    /\ worker = "activating"
    /\ cacheStorage' = deleteOld(cacheStorage, keys, CACHE_NAME(appVersion))
    /\ worker' = "activated"
    /\ UNCHANGED <<appVersion, server, online, keys, served, missed>>
    /\ WorkerFrame

\* the fetch handler answers a request of a controlled page
Fetch ==
    /\ worker = "activated"
    /\ \E url \in Requests, html \in BOOLEAN :
          \E response \in {respondWith(cacheStorage, [url |-> url, html |-> html], server, online)} :
              served' = [url |-> url, html |-> html, from |-> response.from,
                         version |-> response.version, online |-> online,
                         network |-> server[url]]
    /\ UNCHANGED <<worker, appVersion, cacheStorage, server, online, keys, missed>>
    /\ WorkerFrame

\* an asset changes on the server
Deploy ==
    /\ \E url \in Requests :
          /\ server[url] < MaxAssetVersion
          /\ server' = [server EXCEPT ![url] = @ + 1]
    /\ UNCHANGED <<worker, appVersion, cacheStorage, online, keys, served, missed>>
    /\ WorkerFrame

\* the network comes or goes
Connection ==
    /\ online' = ~online
    /\ UNCHANGED <<worker, appVersion, cacheStorage, server, keys, served, missed>>
    /\ WorkerFrame

NextWorker ==
    \/ ManifestLoaded \/ ManifestFailed \/ Install \/ ActivateKeys \/ ActivateDelete
    \/ Fetch \/ Deploy \/ Connection

SpecWorker == InitWorker /\ [][NextWorker]_vars

\* C25: the fetch handler is stale-while-revalidate: when it has answered a
\* request from the cache with the network in reach, it has also fetched the
\* asset and updated the cache entry, so the cache then holds the version
\* the network served at that moment.
C25_CacheHitRevalidates ==
    (served # <<>> /\ served.from = "cache" /\ served.online) =>
        match(cacheStorage, served.url) = served.network

\* C25 witness: a request answered online from the cache with the first
\* version of an asset that the server has in its second version.
C25_Witness ==
    /\ served # <<>>
    /\ served.from = "cache" /\ served.online
    /\ served.version = 1 /\ served.network = 2
    /\ match(cacheStorage, served.url) = 1

\* once the worker is activated no step changes a cache
CachesFrozen == [][worker = "activated" => cacheStorage' = cacheStorage]_vars

\* C26: after the activate handler has completed, every cache of the origin
\* carries the worker's current cache name, whatever caches there were.
C26_OnlyCurrentCacheRemains ==
    worker = "activated" =>
        \A k \in 1 .. Len(cacheStorage) : cacheStorage[k].name = CACHE_NAME(appVersion)

\* C26 witness: the handler found the cache of another worker version and a
\* cache of another name besides its own and has deleted both.
C26_Witness ==
    /\ worker = "activated"
    /\ Len(keys) = 3
    /\ \E k \in 1 .. Len(keys) : keys[k][1] # "labyrinth-cache-v"
    /\ \E k \in 1 .. Len(keys) : keys[k][1] = "labyrinth-cache-v" /\ keys[k][2] # appVersion
    /\ cacheNamesOf(cacheStorage) = <<CACHE_NAME(appVersion)>>

----------------------------------------------------------------------------
(* The lifecycle events of the service worker.  The script only starts the  *)
(* manifest fetch when it is evaluated (sw.js 1) and adds its listeners in  *)
(* the fetch's then (19, 30, 47); the browser dispatches install after the  *)
(* evaluation and activate after the installation, whether or not the       *)
(* manifest has arrived.                                                    *)

InitLifecycle ==
    /\ AmazegameIdle /\ WordIdle
    /\ map = <<>> /\ startPoint = NullPoint /\ analysis = <<>> /\ call = <<>>
    /\ pc = "lifecycle"
    /\ worker = "evaluated"
    /\ appVersion = 0
    /\ \E names \in SUBSET CacheNames : cacheStorage = CachesOf(names)
    /\ server = [u \in Urls |-> 1]
    /\ online \in BOOLEAN
    /\ keys = <<>>
    /\ served = <<>>
    /\ missed = {}

\* install is dispatched while the worker has no install listener: the
\* installation succeeds without a step of the script
InstallUnheard ==
    /\ worker \in {"evaluated", "failed"}
    /\ "install" \notin missed
    /\ missed' = missed \cup {"install"}
    /\ UNCHANGED <<worker, appVersion, cacheStorage, server, online, keys, served>>
    /\ WorkerFrame

\* activate is dispatched after an installation without listener and the
\* worker still has no listener
ActivateUnheard ==
    /\ worker \in {"evaluated", "failed"}
    /\ "install" \in missed /\ "activate" \notin missed
    /\ missed' = missed \cup {"activate"}
    /\ UNCHANGED <<worker, appVersion, cacheStorage, server, online, keys, served>>
    /\ WorkerFrame

\* activate is dispatched after an installation without listener, the
\* manifest has arrived in between: the activate handler runs, first part
ActivateLate ==
    /\ worker = "registered"
    /\ "install" \in missed /\ "activate" \notin missed
    /\ keys' = cacheNamesOf(cacheStorage)
    /\ worker' = "activating"
    /\ UNCHANGED <<appVersion, cacheStorage, server, online, served, missed>>
    /\ WorkerFrame

NextLifecycle ==
    \/ ManifestLoaded \/ ManifestFailed \/ Install \/ InstallUnheard
    \/ ActivateKeys \/ ActivateLate \/ ActivateUnheard \/ ActivateDelete \/ Connection

SpecLifecycle == InitLifecycle /\ [][NextLifecycle]_vars

\* the worker is activating or active
Activated == worker \in {"activating", "activated"} \/ "activate" \in missed

\* the cache of the worker's version holds every URL of urlsToCache
VersionedCacheFilled ==
    \E k \in 1 .. Len(cacheStorage) :
        /\ cacheStorage[k].name = CACHE_NAME(appVersion)
        /\ \A u \in urlsToCache : cacheStorage[k].entries[u] # 0

\* C39: whenever the install event is dispatched the install handler is
\* already registered, so that every URL of urlsToCache is in the versioned
\* cache before the worker activates, however the manifest fetch (its
\* failure included) interleaves with the install event.
C39_InstallHandlerRegistered ==
    /\ "install" \notin missed
    /\ Activated => VersionedCacheFilled

\* C39 witness: install was dispatched before the manifest arrived, the
\* handlers were registered afterwards and the activate handler has run
\* with no cache of the worker's version
C39_Witness ==
    /\ worker = "activated"
    /\ missed = {"install"}
    /\ appVersion > 0
    /\ ~VersionedCacheFilled

\* a worker whose install handler has run activates with the versioned cache filled
HeardInstallFillsCache ==
    ("install" \notin missed /\ Activated) => VersionedCacheFilled

====
